---- MODULE Spec2Model ----
(***************************************************************************)
(* Model of src/bot.py: the on_message handler of the chat bot.  Each      *)
(* handler is an asyncio task; an action of the model is the code a task   *)
(* runs between two suspension points (awaits).  Shared state is the       *)
(* module-level dictionary msg_nodes and the MsgNode objects it refers     *)
(* to; the chat platform (messages, what each displays) and the            *)
(* generation stream are the environment.                                  *)
(*                                                                         *)
(* Texts are sequences of tokens <<src, idx, len>>: a piece of text of     *)
(* len characters.  src > 0 is the id of the user message the piece comes  *)
(* from, src < 0 the handler whose generation stream produced delta idx,   *)
(* src = 0 a literal of the program (the in-progress marker, the error     *)
(* text).  The length of a text is the sum of the len of its tokens.       *)
(***************************************************************************)
EXTENDS Integers, Sequences, FiniteSets, TLC

\* ---------------------------------------------------------------- bounds
\* config["max_messages"], config["max_images"], config["max_text"],
\* config["max_urls"]: values of the configuration file.
max_messages == 2
max_images == 2
max_text == 3
max_urls == 1
\* The handlers (one asyncio task per incoming message event).
NumHandlers == 4
\* The handlers of the concurrent specification.
NumConcurrent == 2
\* Messages that exist on the platform before the first event: ids 1..NumOld.
NumOld == 2
\* The clock stops advancing at MaxTime (seconds).
MaxTime == 4
\* The longest generation stream, in deltas.
MaxDeltas == 3
\* The platform and generation calls that may fail in a concurrent run.
MaxFaults == 1

\* ------------------------------------------------------ program constants
EDIT_DELAY_SECONDS == 2
MAX_MESSAGE_NODES == 500
\* 4096 in "max_message_length = 4096 - len(...)": the embed description limit.
EmbedLimit == 4096
\* max_message_length of plain responses.
PlainLimit == 2000
\* discord_bot.user, the bot's own account, as an author id.
BotUser == 0
\* None, as a message (curr_msg, parent_msg) or a user id.
NoMsg == 0

Handlers == 1..NumHandlers
\* The handler of the specifications in which one message arrives.
Solo == {1}
OldMsgs == 1..NumOld

\* ------------------------------------------------------------------ texts
\* " ⚪", the in-progress marker: two characters.
StreamingIndicator == <<0, 0, 2>>
\* error_msg: "Sorry, I encountered an error while generating a response."
ErrorText == << <<0, 1, 58>> >>

RECURSIVE TextLen(_)
\* len(text)
TextLen(t) == IF t = <<>> THEN 0 ELSE Head(t)[3] + TextLen(Tail(t))

RECURSIVE Take(_, _)
\* text[:n]
Take(t, n) ==
  IF t = <<>> \/ n <= 0 THEN <<>>
  ELSE IF Head(t)[3] <= n THEN <<Head(t)>> \o Take(Tail(t), n - Head(t)[3])
  ELSE << <<Head(t)[1], Head(t)[2], n>> >>

RECURSIVE Join(_)
\* "".join(contents)
Join(ss) == IF ss = <<>> THEN <<>> ELSE Head(ss) \o Join(Tail(ss))

MinOf(a, b) == IF a <= b THEN a ELSE b

RECURSIVE SortedAbove(_, _, _)
\* The k smallest elements above lo of a set S of integers, in ascending order.
SortedAbove(S, lo, k) ==
  IF k <= 0 \/ ~\E x \in S : x > lo THEN <<>>
  ELSE LET m == CHOOSE x \in S : x > lo /\ \A y \in S : y > lo => x <= y
       IN  <<m>> \o SortedAbove(S, m, k - 1)

\* sorted(S)[:k] for a set S of natural numbers
SortedPrefix(S, k) == SortedAbove(S, 0 - 1, k)

\* ------------------------------------------------------------------ state
VARIABLES
  msg_nodes,    \* the dictionary msg_nodes, its entries for the messages of the
                \* run: message id -> MsgNode object (its oid)
  fill,         \* the entries of msg_nodes for messages of other conversations
                \* (populated, unlocked nodes): at the start, keys FillerKeys(fill)
  gone,         \* the keys among them that have been removed since
  nodes,        \* the MsgNode objects allocated so far: oid -> fields
  platform,     \* the messages on the chat platform: id -> attributes and display
  next_msg_id,  \* the id the platform gives the next message (ids grow with time)
  now,          \* the clock, in seconds
  use_plain,    \* config["use_plain_responses"]
  arrivals,     \* names the kinds of message the environment may post in this run
  active,       \* the handlers that may be started in this run
  faults,       \* the calls that have failed so far in a concurrent run
  server_data,  \* the files of SERVER_DATA_DIR: key of a guild or of a direct-
                \* message identity -> the record stored for it
  interaction,  \* the slash commands run so far, each with the reply it got
  overtook,     \* the handlers that have run since a waiter was woken that has
                \* not run yet
  task          \* per handler: its position and its local variables

vars == <<msg_nodes, fill, gone, nodes, platform, next_msg_id, now, use_plain, arrivals, active, faults,
         server_data, interaction, overtook, task>>

\* ------------------------------------------------------ preference store
\* config["default_model"] and config["default_system_prompt"]
DefaultModel == "gemini-2.5-flash"
DefaultPrompt == "default prompt"

\* The choices of the /model command.
AVAILABLE_MODELS == {"gemini-2.5-flash", "gemini-2.5-pro"}

\* The guild of the model's guild channel.
GuildId == 1

\* The slash commands of a run.
MaxCommands == 2

\* What names the file of a record: "<server_id>.json" or "dm_<user_id>.json".
DataKey(dm, user) == IF dm THEN <<"dm", user>> ELSE <<"guild", GuildId>>

\* default_data of load_server_data.  users is <<>> for {} (guild) and for
\* None (direct message); user is <<>> for {} and for a missing key.
DefaultData ==
  [model |-> DefaultModel, system_prompt |-> DefaultPrompt, users |-> <<>>, user |-> <<>>]

\* The local variable server_data of a handler that has loaded nothing yet.
NoData == [model |-> "", system_prompt |-> "", users |-> <<>>, user |-> <<>>]

\* A load that returns an empty record for a missing file (what C18 is
\* checked against).
LoadBlank(data, key) ==
  IF key \in DOMAIN data
  THEN [data |-> data, loaded |-> data[key]]
  ELSE [data |-> data @@ (key :> NoData), loaded |-> NoData]

\* load_server_data: the record of the file, or the default record, which is
\* then written to the file.  data is the store afterwards.
LoadServerData(data, key) ==
  IF key \in DOMAIN data
  THEN [data |-> data, loaded |-> data[key]]
  ELSE [data |-> data @@ (key :> DefaultData), loaded |-> DefaultData]

\* The entry get_or_create_user writes for a user: a new one, or the old one
\* with display_name and last_updated set.  A user's display name is modelled
\* by the user's id.
UserEntry(old, user, time) ==
  IF old = <<>>
  THEN [display_name |-> user, description |-> 0, first_seen |-> time, last_updated |-> time]
  ELSE [old[1] EXCEPT !.display_name = user, !.last_updated = time]

\* The record get_or_create_user saves, from the record rec it loaded.
WithUser(rec, dm, user, time) ==
  IF dm
  THEN [rec EXCEPT !.user = <<UserEntry(rec.user, user, time)>>]
  ELSE [rec EXCEPT !.users =
          [u \in DOMAIN rec.users \cup {user} |->
             IF u = user
             THEN UserEntry(IF u \in DOMAIN rec.users THEN <<rec.users[u]>> ELSE <<>>, u, time)
             ELSE rec.users[u]]]

\* save_server_data: the file of key holds rec.
SaveServerData(data, key, rec) ==
  [k \in DOMAIN data \cup {key} |-> IF k = key THEN rec ELSE data[k]]

\* get_or_create_user: load, set the user's entry, save.
GetOrCreateUser(data, key, dm, user, time) ==
  LET ld == LoadServerData(data, key)
  IN  SaveServerData(ld.data, key, WithUser(ld.loaded, dm, user, time))

\* ------------------------------------------------------------ the cache
\* MsgNode(): text is <<>> for None and <<t>> for the text t.
\* pops, resolved, torn and unresolved are history fields: the number of times
\* the populate branch ran on the object, whether it ran to its end, whether a
\* handler entered the node's "async with" body while another was inside it,
\* and the number of image attachments whose download returned None.
NewNode(parent) ==
  [text |-> <<>>, images |-> 0, role |-> "model", user_id |-> NoMsg,
   has_bad_attachments |-> FALSE, fetch_parent_failed |-> FALSE,
   parent_msg |-> parent, lock |-> 0, pops |-> 0, resolved |-> FALSE, torn |-> FALSE,
   unresolved |-> 0]

\* The keys of the entries for other conversations: newer than the old
\* messages, older than every message of the run.
FillerKeys(n) == (NumOld + 1)..(NumOld + n)

\* msg_nodes.keys()
Keys(map, removed) == DOMAIN map \cup (FillerKeys(fill) \ removed)

\* len(msg_nodes)
Size(map, removed) == Cardinality(DOMAIN map) + fill - Cardinality(removed)

\* sorted(msg_nodes.keys())[:k]: the k smallest keys are among the keys of
\* the run and the first k keys of other conversations that are left.
OldestKeys(map, removed, k) ==
  SortedPrefix(DOMAIN map \cup (FillerKeys(MinOf(fill, k + Cardinality(removed))) \ removed), k)

\* A lock that never makes a handler wait (what C1 is checked against).
LockIgnored(n) == TRUE

\* asyncio.Lock.locked() is false: acquire() returns at once.
LockFree(n) == n.lock = 0

\* The local variables of a handler that has not started.
IdleTask ==
  [pc |-> "idle", new_msg |-> NoMsg, curr_msg |-> NoMsg, curr_node |-> 0,
   messages |-> <<>>, user_warnings |-> {}, user_ids |-> {}, iters |-> 0, walked |-> <<>>,
   stream |-> <<>>, response_msgs |-> <<>>, response_contents |-> <<>>,
   chunk_buffer |-> <<>>, last_edit_time |-> 0, current_time |-> 0,
   max_message_length |-> 0, embed_warn |-> FALSE,
   sent |-> NoMsg, resume |-> "idle", fin_i |-> 0, calls |-> <<>>,
   evict_list |-> <<>>, evict_idx |-> 0, evict_node |-> 0,
   evict_start |-> [own |-> {}, gone |-> {}], evict_removed |-> {}, evict_end |-> 0,
   server_data |-> NoData, user_data |-> NoData, submitted |-> <<>>, gate |-> <<>>,
   config_data |-> <<>>, system_prompt |-> <<>>]

\* A user message as the platform holds it.
UserMsg(author, text, good, bad, urls, ref, mention, prev, thread, dm) ==
  [author |-> author, text |-> text, good |-> good, bad |-> bad, urls |-> urls,
   ref |-> ref, mention |-> mention, prev |-> prev, thread |-> thread,
   kind |-> IF ref = NoMsg THEN "default" ELSE "reply",
   dm |-> dm, warn |-> FALSE, color |-> "none"]

\* The text of user message id with n characters ("" when n = 0).
UserText(id, n) == IF n = 0 THEN <<>> ELSE << <<id, 1, n>> >>


\* ------------------------------------------------- the response: set-up
\* The capacity of a plain message for every response (what C4 is checked against).
PlainLength(plain) == PlainLimit

\* max_message_length, for rich (embed) and plain responses.
MaxMessageLength(plain) ==
  IF plain THEN PlainLimit ELSE EmbedLimit - TextLen(<<StreamingIndicator>>)

\* build_system_prompt raises UnboundLocalError: in a direct message whose
\* stored record has a user entry, the loop over conversation_user_ids reads
\* the local variable user before any assignment.
PromptRaises(p, t) ==
  /\ p[t.new_msg].dm
  /\ t.server_data.user # <<>>
  /\ t.user_ids # {}

\* users_info of build_system_prompt for a record without a user entry: the
\* participants that are in the users map with a description ("" is 0).
KnownUsers(rec, ids) ==
  {u \in ids : /\ rec.users # <<>>
               /\ u \in DOMAIN rec.users
               /\ rec.users[u].description # 0}

\* build_system_prompt: the stored prompt, the server's name in a guild, and
\* the known-users block; or the exception it raises.
BuildSystemPrompt(p, t) ==
  IF PromptRaises(p, t)
  THEN <<[raised |-> "UnboundLocalError", prompt |-> "", server |-> FALSE, known |-> {}]>>
  ELSE <<[raised |-> "", prompt |-> t.server_data.system_prompt, server |-> ~p[t.new_msg].dm,
          known |-> KnownUsers(t.server_data, t.user_ids)]>>

\* From the end of the walk to the try block: the system prompt, the model
\* object, max_message_length and the embed with the warnings field.  The
\* handler then awaits channel.typing() and the generation call.
Prompt(p, t) ==
  [t EXCEPT !.pc = IF PromptRaises(p, t) THEN "crashed" ELSE "generate",
            !.system_prompt = BuildSystemPrompt(p, t),
            !.max_message_length = MaxMessageLength(use_plain),
            !.embed_warn = (~use_plain /\ t.user_warnings # {})]

\* --------------------------------------------------- the conversation walk
\* A handler runs without interruption from one await that suspends it to the
\* next.  The operators of the walk take and return the part of the state
\* the handler works on, w = [map, objs, t, plat]: the dictionary msg_nodes, the
\* MsgNode objects, the handler's local variables and the platform's messages.

\* A while condition that admits one turn more (what C2 is checked against).
WalkOneMore(n) == n <= max_messages

\* "len(messages) < max_messages" of the while condition.
WalkContinue(n) == n < max_messages

\* curr_node = msg_nodes.setdefault(key, MsgNode())
SetDefault(w, key) ==
  IF key \in DOMAIN w.map
  THEN [w EXCEPT !.t.curr_node = w.map[key]]
  ELSE LET oid == Len(w.objs) + 1
       IN  [w EXCEPT !.map = w.map @@ (key :> oid),
                     !.objs = Append(w.objs, NewNode(NoMsg)),
                     !.t.curr_node = oid]

\* The parent with the thread's starter taken before the preceding message
\* (what C19 is checked against).
FindParentThreadFirst(p, m) ==
  LET msg == p[m]
      prev_ok == /\ msg.ref = NoMsg
                 /\ ~msg.mention
                 /\ msg.prev # NoMsg
                 /\ msg.prev \in DOMAIN p
                 /\ p[msg.prev].kind \in {"default", "reply"}
                 /\ p[msg.prev].author = (IF msg.dm THEN BotUser ELSE msg.author)
  IN  IF msg.thread # NoMsg /\ msg.ref = NoMsg THEN msg.thread
      ELSE IF prev_ok THEN msg.prev
      ELSE msg.ref

\* The parent the "Find parent message" block resolves for message m.
FindParent(p, m) ==
  LET msg == p[m]
      is_dm == msg.dm
      prev_ok == /\ msg.ref = NoMsg
                 /\ ~msg.mention
                 /\ msg.prev # NoMsg
                 /\ msg.prev \in DOMAIN p
                 /\ p[msg.prev].kind \in {"default", "reply"}
                 /\ p[msg.prev].author = (IF is_dm THEN BotUser ELSE msg.author)
      parent_is_thread_start == msg.thread # NoMsg /\ msg.ref = NoMsg
  IN  IF prev_ok THEN msg.prev
      ELSE IF parent_is_thread_start THEN msg.thread
      ELSE msg.ref

\* The block awaits a platform call (channel.history, fetch_message), which
\* can raise; the referenced message is not in the client's message cache.
ParentLookupCalls(p, m) ==
  \/ p[m].ref = NoMsg /\ ~p[m].mention
  \/ FindParent(p, m) # NoMsg

\* The populate branch awaits downloads: the message has image attachments
\* or image URLs in its text.
DownloadCalls(p, m) ==
  MinOf(p[m].good, max_images) > 0 \/ MinOf(p[m].urls, max_urls) > 0

RECURSIVE Walk(_, _)

\* "Build content for Gemini" and "Warnings", the end of the async with block
\* (the lock is released) and curr_msg = curr_node.parent_msg; then the while
\* condition again.
BuildTurn(h, w) ==
  LET oid == w.t.curr_node
      n == w.objs[oid]
      text == n.text[1]
      cut == Take(text, max_text)
      nimg == MinOf(n.images, max_images)
      turn == [role |-> n.role, text |-> cut,
               named |-> (n.role = "user" /\ n.user_id # NoMsg), images |-> nimg,
               msg |-> w.t.curr_msg]
      msgs == IF cut # <<>> \/ nimg > 0 THEN Append(w.t.messages, turn)
              ELSE w.t.messages
      warn == (IF TextLen(text) > max_text THEN {<<"max_text", max_text>>} ELSE {})
              \cup (IF n.images > max_images THEN {<<"max_images", max_images>>} ELSE {})
              \cup (IF n.has_bad_attachments THEN {<<"bad_attachments", 0>>} ELSE {})
              \cup (IF n.fetch_parent_failed
                       \/ (n.parent_msg # NoMsg /\ Len(msgs) = max_messages)
                    THEN {<<"only_last", Len(msgs)>>} ELSE {})
  IN  Walk(h, [w EXCEPT !.objs[oid].lock = 0,
                        !.t.messages = msgs,
                        !.t.walked = Append(@, [msg |-> w.t.curr_msg, node |-> oid]),
                        !.t.user_warnings = @ \cup warn,
                        !.t.user_ids = IF n.user_id # NoMsg THEN @ \cup {n.user_id} ELSE @,
                        !.t.curr_msg = n.parent_msg])

\* A "Find parent message" block whose except clause does not set the flag
\* (what C22 is checked against).
PopulateParentUnflagged(h, w, outcome) ==
  LET oid == w.t.curr_node
      w1 == [w EXCEPT
               !.objs[oid].parent_msg = IF outcome = "ok" THEN FindParent(w.plat, w.t.curr_msg) ELSE @,
               !.objs[oid].resolved = (outcome # "other_error")]
  IN  IF outcome = "other_error"
      THEN [w1 EXCEPT !.objs[oid].lock = 0, !.t.pc = "crashed"]
      ELSE BuildTurn(h, w1)

\* The "Find parent message" block.  outcome: the lookup returns ("ok"),
\* raises discord.NotFound or discord.HTTPException ("fetch_error", caught), or
\* raises another exception ("other_error"), which leaves the async with block
\* and the handler.
PopulateParent(h, w, outcome) ==
  LET oid == w.t.curr_node
      w1 == [w EXCEPT
               !.objs[oid].parent_msg = IF outcome = "ok" THEN FindParent(w.plat, w.t.curr_msg) ELSE @,
               !.objs[oid].fetch_parent_failed = (outcome = "fetch_error"),
               !.objs[oid].resolved = (outcome # "other_error")]
  IN  IF outcome = "other_error"
      THEN [w1 EXCEPT !.objs[oid].lock = 0, !.t.pc = "crashed"]
      ELSE BuildTurn(h, w1)

\* The image downloads of the populate branch (each download_and_encode_image
\* returns a part or None, and never raises), then role, user_id and
\* has_bad_attachments.  att_ok and url_ok are the downloads that succeeded.
PopulateImages(h, w, att_ok, url_ok) ==
  LET oid == w.t.curr_node
      msg == w.plat[w.t.curr_msg]
      role == IF msg.author = BotUser THEN "model" ELSE "user"
      w1 == [w EXCEPT !.objs[oid].images = att_ok + url_ok,
                      !.objs[oid].unresolved = MinOf(msg.good, max_images) - att_ok,
                      !.objs[oid].role = role,
                      !.objs[oid].user_id = IF role = "user" THEN msg.author ELSE NoMsg,
                      !.objs[oid].has_bad_attachments = msg.bad > 0]
  IN  IF ParentLookupCalls(w.plat, w.t.curr_msg)
      THEN [w1 EXCEPT !.t.pc = "pop_parent"]
      ELSE PopulateParent(h, w1, "ok")

\* The downloads that can succeed for message m.
DownloadOutcomes(p, m) ==
  {<<a, u>> \in (0..max_images) \X (0..max_images) :
     /\ a <= MinOf(p[m].good, max_images)
     /\ u <= (IF a < max_images
              THEN MinOf(MinOf(p[m].urls, max_urls), max_images - a)
              ELSE 0)}

\* The body of "async with curr_node.lock", entered by handler h.  If
\* curr_node.text is None: the first lines of the populate branch, where the
\* text is derived from the message's content and embeds.  torn records that
\* the body is entered while another handler is inside it.
WithLock(h, w) ==
  LET oid == w.t.curr_node
      n == w.objs[oid]
      w1 == [w EXCEPT !.objs[oid].lock = h,
                      !.objs[oid].torn = @ \/ (n.lock \notin {0, h})]
  IN  IF n.text = <<>>
      THEN LET w2 == [w1 EXCEPT !.objs[oid].text = <<w.plat[w.t.curr_msg].text>>,
                                !.objs[oid].images = 0,
                                !.objs[oid].pops = @ + 1]
           IN  IF DownloadCalls(w.plat, w.t.curr_msg)
               THEN [w2 EXCEPT !.t.pc = "pop_images"]
               ELSE PopulateImages(h, w2, 0, 0)
      ELSE BuildTurn(h, w1)

\* The handlers that wait for the lock of node oid.  asyncio's Lock.acquire
\* takes a free lock at once only if no waiter is queued for it; a lock that
\* was released but has a waiter that has not run yet makes the caller queue
\* behind that waiter.
Waiters(oid) ==
  {g \in Handlers : (task[g].pc = "acquire" /\ task[g].curr_node = oid)
                     \/ (task[g].pc = "evict_wait" /\ task[g].evict_node = oid)}

\* while curr_msg is not None and len(messages) < max_messages:
\*     curr_node = msg_nodes.setdefault(curr_msg.id, MsgNode())
\*     async with curr_node.lock: ...
\* up to the handler's next suspension: a lock that is held, a download, a
\* parent lookup or, after the loop, the generation call.
Walk(h, w) ==
  IF w.t.curr_msg # NoMsg /\ WalkContinue(Len(w.t.messages))
  THEN LET w1 == SetDefault([w EXCEPT !.t.iters = @ + 1], w.t.curr_msg)
       IN  IF LockFree(w1.objs[w1.t.curr_node]) /\ Waiters(w1.t.curr_node) \ {h} = {}
           THEN WithLock(h, w1)
           ELSE [w1 EXCEPT !.t.pc = "acquire"]
  ELSE [w EXCEPT !.t = Prompt(w.plat, w.t)]

\* The state handler h works on.
Mine(h) == [map |-> msg_nodes, objs |-> nodes, t |-> task[h], plat |-> platform]

\* The state after handler h's step has turned the state it works on into w.
Resumed(h, w) ==
  /\ msg_nodes' = w.map
  /\ nodes' = w.objs
  /\ task' = [task EXCEPT ![h] = w.t]

\* The calls of handler t that failed, among those its history records.
Failed(t) == Cardinality({i \in DOMAIN t.calls : ~t.calls[i].ok})

\* n calls fail in this step.  A concurrent run has at most MaxFaults
\* failures of platform and generation calls.
Fault(n) ==
  IF arrivals \in {"concurrent", "gate", "prefs"}
  THEN faults + n <= MaxFaults /\ faults' = faults + n
  ELSE faults' = faults

\* Handler g waits for a lock that has been released: release() has woken it.
Woken(g) ==
  \/ task[g].pc = "acquire" /\ LockFree(nodes[task[g].curr_node])
  \/ task[g].pc = "evict_wait" /\ LockFree(nodes[task[g].evict_node])

\* No handler that a release has woken is waiting to run.
NoneWoken == \A g \in Handlers : ~Woken(g)

\* The event loop runs its ready tasks in the order in which they became
\* ready.  A waiter that a release has woken runs before every task that
\* becomes ready later, but a task whose input or output had completed by
\* then, or whose message had been delivered, is in the queue before it: while
\* a woken waiter has not run, every other handler takes at most one step.
MayRun(h) ==
  /\ NoneWoken \/ h \notin overtook
  /\ overtook' = IF NoneWoken THEN {} ELSE overtook \cup {h}

\* The woken waiter h runs.
Waited(h) ==
  overtook' = IF \A g \in Handlers \ {h} : ~Woken(g) THEN {} ELSE overtook

\* ------------------------------------------------------ on_message: start
\* The message that starts the public thread of the guild channel.
ThreadStarter == 1

\* The newest message of a channel, if any: of the direct-message channel
\* (dm), of the thread (thread is its starter) or of the guild channel.
LastIn(p, dm, thread) ==
  LET S == {m \in DOMAIN p : p[m].dm = dm /\ p[m].thread = thread}
  IN  IF S = {} THEN NoMsg ELSE CHOOSE m \in S : \A k \in S : k <= m

\* The message a user posts: tpl describes it, target is the message it
\* replies to when tpl.reply.  The message before it in its channel is the
\* newest message of that channel.
NewMsg(tpl, target) ==
  LET thread == IF tpl.thread THEN ThreadStarter ELSE NoMsg
  IN  UserMsg(tpl.author, UserText(next_msg_id, tpl.len), tpl.good, tpl.bad, tpl.urls,
              IF tpl.reply THEN target ELSE NoMsg, tpl.mention,
              LastIn(platform, tpl.dm, thread), thread, tpl.dm)

\* "Load server data" and "Get or create user", then the walk from the
\* trigger message up to the handler's first suspension in it.  t0 holds the
\* handler's local variables, p the platform's messages.  The load of
\* on_message and the load and save of get_or_create_user are one step here,
\* for the runs in which the handlers alone write the store; LoadData,
\* UserLoad and UserSave are the same three as separate steps.
Enter(h, t0, p) ==
  LET msg == p[t0.new_msg]
      key == DataKey(msg.dm, msg.author)
      ld == LoadServerData(server_data, key)
  IN  /\ server_data' = GetOrCreateUser(ld.data, key, msg.dm, msg.author, now)
      /\ Resumed(h, Walk(h, [map |-> msg_nodes, objs |-> nodes, plat |-> p,
                             t |-> [t0 EXCEPT !.curr_msg = t0.new_msg,
                                              !.server_data = ld.loaded]]))

\* A user posts a message that mentions the bot (or replies to a message) in
\* a guild channel and the gateway delivers it: on_message(new_msg) up to
\* its first suspension.  tpl describes the new message, target is the
\* message it replies to when tpl.reply.  Handlers are numbered in the order
\* in which their messages arrive.
Start(h, tpl, target) ==
  /\ task[h].pc = "idle"
  /\ h \in active
  /\ MayRun(h)
  /\ \A g \in active : g < h => task[g].pc # "idle"
  /\ platform' = platform @@ (next_msg_id :> NewMsg(tpl, target))
  /\ next_msg_id' = next_msg_id + 1
  /\ Enter(h, [IdleTask EXCEPT !.new_msg = next_msg_id], platform')
  /\ UNCHANGED <<interaction, fill, gone, now, use_plain, arrivals, active, faults>>

\* ------------------------------------------------- on_message: the gate
\* The ids of the guild channel, of its category and of the direct-message
\* channel; channel 4 and user 2 and role 2 are others, which the lists of the
\* configuration may name.
GuildChannel == 1
Category == 2
DmChannel == 3

\* What the gate reads of a message besides its text: author.bot, the
\* author's roles (none in a direct message: a User has no roles) and the ids
\* of the channel and, when it has them, of its parent or category.
GateMessages(dm) ==
  IF dm
  THEN [bot : BOOLEAN, role_ids : {{}}, channel_ids : {{DmChannel}}]
  ELSE [bot : BOOLEAN, role_ids : {{}, {1}},
        channel_ids : {{GuildChannel}, {GuildChannel, Category}}]

\* config_data, as get_config() returns it for a message: allow_dms and the
\* permissions.
Configs ==
  [allow_dms : BOOLEAN, admin_ids : {{}, {1}},
   allowed_user_ids : {{}, {1}, {2}}, blocked_user_ids : {{}, {1}},
   allowed_role_ids : {{}, {1}, {2}}, blocked_role_ids : {{}, {1}},
   allowed_channel_ids : {{}, {GuildChannel}, {Category}, {4}},
   blocked_channel_ids : {{}, {GuildChannel}, {Category}, {DmChannel}}]

\* "(not is_dm and discord_bot.user not in new_msg.mentions) or new_msg.author.bot"
Ignored(msg, m) == (~msg.dm /\ ~msg.mention) \/ m.bot

\* user_is_admin
UserIsAdmin(msg, c) == msg.author \in c.admin_ids

\* is_bad_user
IsBadUser(msg, m, c) ==
  LET allow_all_users == IF msg.dm THEN c.allowed_user_ids = {}
                         ELSE c.allowed_user_ids = {} /\ c.allowed_role_ids = {}
      is_good_user == \/ UserIsAdmin(msg, c)
                      \/ allow_all_users
                      \/ msg.author \in c.allowed_user_ids
                      \/ m.role_ids \cap c.allowed_role_ids # {}
  IN  \/ ~is_good_user
      \/ msg.author \in c.blocked_user_ids
      \/ m.role_ids \cap c.blocked_role_ids # {}

\* The channel test without the channel block list (what C15 is checked against).
ChannelNotAllowed(msg, m, c) ==
  IF msg.dm THEN ~(UserIsAdmin(msg, c) \/ c.allow_dms)
  ELSE ~(c.allowed_channel_ids = {} \/ m.channel_ids \cap c.allowed_channel_ids # {})

\* is_bad_channel
IsBadChannel(msg, m, c) ==
  LET allow_all_channels == c.allowed_channel_ids = {}
      is_good_channel == IF msg.dm THEN UserIsAdmin(msg, c) \/ c.allow_dms
                         ELSE allow_all_channels
                              \/ m.channel_ids \cap c.allowed_channel_ids # {}
  IN  \/ ~is_good_channel
      \/ m.channel_ids \cap c.blocked_channel_ids # {}

\* The gate applied after the preferences are loaded (what C16 is checked against).
RejectAfterLoad(w, msg) ==
  [t |-> [w.t EXCEPT !.pc = "denied"],
   data |-> GetOrCreateUser(w.data, DataKey(msg.dm, msg.author), msg.dm, msg.author, now)]

\* "if is_bad_user or is_bad_channel: return", on w = [t, data]: the handler's
\* local variables and the preference store.
Reject(w, msg) == [w EXCEPT !.t.pc = "denied"]

\* A user (or a bot) posts a message and the gateway delivers it:
\* on_message(new_msg) up to "await asyncio.to_thread(get_config)", or to the
\* return of the first test.
Deliver(h, tpl, m) ==
  /\ task[h].pc = "idle"
  /\ h \in active
  /\ MayRun(h)
  /\ \A g \in active : g < h => task[g].pc # "idle"
  /\ LET msg == NewMsg(tpl, NoMsg)
     IN  /\ platform' = platform @@ (next_msg_id :> msg)
         /\ next_msg_id' = next_msg_id + 1
         /\ task' = [task EXCEPT ![h] =
                       [IdleTask EXCEPT !.new_msg = next_msg_id, !.gate = <<m>>,
                                        !.pc = IF Ignored(msg, m) THEN "ignored" ELSE "config"]]
  /\ UNCHANGED <<server_data, interaction, fill, gone, msg_nodes, nodes, now, use_plain, arrivals,
                 active, faults>>

\* get_config() has returned c: the permission checks.  A message that
\* passes goes on to load the preferences.
Gate(h, c) ==
  /\ task[h].pc = "config"
  /\ MayRun(h)
  /\ LET msg == platform[task[h].new_msg]
         m == task[h].gate[1]
         w == [t |-> [task[h] EXCEPT !.config_data = <<c>>], data |-> server_data]
         w1 == IF IsBadUser(msg, m, c) \/ IsBadChannel(msg, m, c)
               THEN Reject(w, msg)
               ELSE [w EXCEPT !.t.pc = "load"]
     IN  /\ task' = [task EXCEPT ![h] = w1.t]
         /\ server_data' = w1.data
  /\ UNCHANGED <<interaction, fill, gone, msg_nodes, nodes, platform, next_msg_id, now, use_plain,
                 arrivals, active, faults>>

\* "server_data = await ServerDataManager.load_server_data(...)": the
\* handler's record is loaded, and created when the file is missing.
LoadData(h) ==
  /\ task[h].pc = "load"
  /\ MayRun(h)
  /\ LET msg == platform[task[h].new_msg]
         ld == LoadServerData(server_data, DataKey(msg.dm, msg.author))
     IN  /\ server_data' = ld.data
         /\ task' = [task EXCEPT ![h].pc = "user_load", ![h].server_data = ld.loaded]
  /\ UNCHANGED <<interaction, fill, gone, msg_nodes, nodes, platform, next_msg_id, now, use_plain,
                 arrivals, active, faults>>

\* get_or_create_user up to its save: the record is loaded again and the
\* author's entry is set in the loaded copy.
UserLoad(h) ==
  /\ task[h].pc = "user_load"
  /\ MayRun(h)
  /\ LET msg == platform[task[h].new_msg]
         ld == LoadServerData(server_data, DataKey(msg.dm, msg.author))
     IN  /\ server_data' = ld.data
         /\ task' = [task EXCEPT ![h].pc = "user_save",
                                 ![h].user_data = WithUser(ld.loaded, msg.dm, msg.author, now)]
  /\ UNCHANGED <<interaction, fill, gone, msg_nodes, nodes, platform, next_msg_id, now, use_plain,
                 arrivals, active, faults>>

\* The save of get_or_create_user writes the copy; the walk starts.
UserSave(h) ==
  /\ task[h].pc = "user_save"
  /\ MayRun(h)
  /\ LET msg == platform[task[h].new_msg]
     IN  server_data' = SaveServerData(server_data, DataKey(msg.dm, msg.author),
                                       task[h].user_data)
  /\ Resumed(h, Walk(h, [map |-> msg_nodes, objs |-> nodes, plat |-> platform,
                         t |-> [task[h] EXCEPT !.curr_msg = task[h].new_msg]]))
  /\ UNCHANGED <<interaction, fill, gone, platform, next_msg_id, now, use_plain, arrivals, active,
                 faults>>

\* ------------------------------------------------------- the /model command
\* config["permissions"]["users"]["admin_ids"] of the configuration read at
\* start-up, which the commands use.
StartupAdmins == {1}

\* The argument of /model: a choice, or "None" when it is left out.
ModelArgs == AVAILABLE_MODELS \cup {"None"}

\* The slash commands awaiting the completion of their save.
Saving == {i \in DOMAIN interaction : interaction[i].said = <<>> /\ interaction[i].cmd = "model"}

\* model_command up to its reply or, for a switch, up to its save.  fresh
\* records that the load found no file, data is the record it returned.
ModelCommand(user, dm, model) ==
  /\ Len(interaction) < MaxCommands
  /\ LET key == DataKey(dm, user)
         ld == LoadServerData(server_data, key)
         current_model == ld.loaded.model
         said == IF model = "None" THEN <<"Current model", current_model>>
                 ELSE IF model = current_model THEN <<"Already using", current_model>>
                 ELSE IF user \notin StartupAdmins THEN <<"No permission", "">>
                 ELSE <<>>
     IN  /\ server_data' = ld.data
         /\ interaction' = Append(interaction,
                                  [user |-> user, dm |-> dm, model |-> model, cmd |-> "model",
                                   action |-> "", arg |-> 0, target |-> NoMsg, pc |-> "save",
                                   fresh |-> key \notin DOMAIN server_data,
                                   data |-> [ld.loaded EXCEPT !.model =
                                               IF said = <<>> THEN model ELSE @],
                                   said |-> said])
  /\ UNCHANGED <<overtook, fill, gone, msg_nodes, nodes, platform, next_msg_id, now, use_plain, arrivals,
                 active, faults, task>>

\* The save of a switch completes and the command replies.
ModelSave(i) ==
  /\ i \in Saving
  /\ LET e == interaction[i]
     IN  /\ server_data' = SaveServerData(server_data, DataKey(e.dm, e.user), e.data)
         /\ interaction' = [interaction EXCEPT ![i].said = <<"Model switched to", e.model>>]
  /\ UNCHANGED <<overtook, fill, gone, msg_nodes, nodes, platform, next_msg_id, now, use_plain, arrivals,
                 active, faults, task>>

\* ------------------------------------------------------ the /prompt command
\* The text argument of /prompt set: left out, a text with a trailing blank,
\* or, as a stored prompt, that text stripped.
PromptTexts == {"", "be brief "}

\* text.strip()
Strip(text) == IF text = "be brief " THEN "be brief" ELSE text

\* The slash commands of kind cmd that await the completion of the file
\* operation named pc.
Pending(cmd, pc) ==
  {i \in DOMAIN interaction :
     interaction[i].said = <<>> /\ interaction[i].cmd = cmd /\ interaction[i].pc = pc}

\* prompt_command up to its reply or, for a set or a reset by an admin, up to
\* its save.
PromptCommand(user, dm, action, text) ==
  /\ Len(interaction) < MaxCommands
  /\ LET key == DataKey(dm, user)
         user_is_admin == user \in StartupAdmins
         ld == LoadServerData(server_data, key)
         said == IF action = "view" THEN <<"Current system prompt", ld.loaded.system_prompt>>
                 ELSE IF ~user_is_admin THEN <<"No permission", "">>
                 ELSE IF action = "set" /\ text = "" THEN <<"Please provide the prompt text", "">>
                 ELSE <<>>
         new == IF action = "set" THEN Strip(text) ELSE DefaultPrompt
     IN  /\ server_data' = ld.data
         /\ interaction' = Append(interaction,
                                  [user |-> user, dm |-> dm, model |-> "None", cmd |-> "prompt",
                                   action |-> action, arg |-> text, target |-> NoMsg,
                                   pc |-> "save",
                                   fresh |-> key \notin DOMAIN server_data,
                                   data |-> [ld.loaded EXCEPT !.system_prompt =
                                               IF said = <<>> THEN new ELSE @],
                                   said |-> said])
  /\ UNCHANGED <<overtook, fill, gone, msg_nodes, nodes, platform, next_msg_id, now, use_plain, arrivals,
                 active, faults, task>>

\* The save of a set or a reset completes and the command replies.
PromptSave(i) ==
  /\ i \in Pending("prompt", "save")
  /\ LET e == interaction[i]
     IN  /\ server_data' = SaveServerData(server_data, DataKey(e.dm, e.user), e.data)
         /\ interaction' = [interaction EXCEPT ![i].said =
                              IF e.action = "set" THEN <<"System prompt updated", "">>
                              ELSE <<"System prompt reset", "">>]
  /\ UNCHANGED <<overtook, fill, gone, msg_nodes, nodes, platform, next_msg_id, now, use_plain, arrivals,
                 active, faults, task>>

\* ------------------------------------------------------- the /known command
\* config.get("max_user_description_length", 500), in the model's units.
max_length == 2

\* The description argument of /known set, by its length: left out (0), a
\* blank (1), a text (2), a text longer than max_length (3).  What is
\* stored is the stripped description: none (0) or the text (2).
Descriptions == 0..(max_length + 1)

\* description.strip()
StripDescription(d) == IF d = 1 THEN 0 ELSE d

\* data["user"]["description"] = d, or data["users"][str(target)]["description"] = d.
\* In a direct message whose record holds an empty user entry, the
\* assignment adds the key to the empty dictionary.
WithDescription(rec, dm, target, d) ==
  IF dm
  THEN [rec EXCEPT !.user =
          IF @ = <<>>
          THEN <<[display_name |-> NoMsg, description |-> d, first_seen |-> 0, last_updated |-> 0]>>
          ELSE <<[@[1] EXCEPT !.description = d]>>]
  ELSE [rec EXCEPT !.users[target].description = d]

\* known_command up to its reply or to the next file operation it awaits:
\* for a set, the load of get_or_create_user; for a remove, the save.  user
\* is the target the command names, NoMsg when it names none.
KnownCommand(issuer, dm, action, description, user) ==
  /\ Len(interaction) < MaxCommands
  /\ LET key == DataKey(dm, issuer)
         user_is_admin == issuer \in StartupAdmins
         target_user == IF user # NoMsg THEN user ELSE issuer
         denied == user # NoMsg /\ user # issuer /\ ~user_is_admin
         ld == LoadServerData(server_data, key)
         data == ld.loaded
         entry == IF dm THEN data.user
                  ELSE IF target_user \in DOMAIN data.users THEN <<data.users[target_user]>>
                  ELSE <<>>
         said == IF denied THEN <<"No permission", "">>
                 ELSE IF action = "view"
                 THEN IF ~dm /\ entry = <<>> THEN <<"Has not interacted", "">>
                      ELSE IF entry # <<>> /\ entry[1].description # 0
                      THEN <<"Description", entry[1].description>>
                      ELSE <<"No description set", "">>
                 ELSE IF action = "set"
                 THEN IF description = 0 THEN <<"Please provide a description", "">>
                      ELSE IF description > max_length THEN <<"Description too long", "">>
                      ELSE <<>>
                 ELSE IF entry = <<>>
                 THEN IF dm THEN <<"No description to remove", "">>
                      ELSE <<"Has not interacted", "">>
                 ELSE <<>>
     IN  /\ server_data' = IF denied THEN server_data ELSE ld.data
         /\ interaction' = Append(interaction,
                                  [user |-> issuer, dm |-> dm, model |-> "None", cmd |-> "known",
                                   action |-> action, arg |-> description, target |-> target_user,
                                   pc |-> IF action = "set" THEN "user_load" ELSE "save",
                                   fresh |-> ~denied /\ key \notin DOMAIN server_data,
                                   data |-> IF said = <<>> /\ action = "remove"
                                            THEN WithDescription(data, dm, target_user, 0)
                                            ELSE data,
                                   said |-> said])
  /\ UNCHANGED <<overtook, fill, gone, msg_nodes, nodes, platform, next_msg_id, now, use_plain, arrivals,
                 active, faults, task>>

\* /known set: the load of get_or_create_user returns and the target's entry
\* is set in the loaded copy.
KnownUserLoad(i) ==
  /\ i \in Pending("known", "user_load")
  /\ LET e == interaction[i]
         ld == LoadServerData(server_data, DataKey(e.dm, e.user))
     IN  /\ server_data' = ld.data
         /\ interaction' = [interaction EXCEPT ![i].pc = "user_save",
                                               ![i].data = WithUser(ld.loaded, e.dm, e.target, now)]
  /\ UNCHANGED <<overtook, fill, gone, msg_nodes, nodes, platform, next_msg_id, now, use_plain, arrivals,
                 active, faults, task>>

\* /known set: the save of get_or_create_user completes.
KnownUserSave(i) ==
  /\ i \in Pending("known", "user_save")
  /\ LET e == interaction[i]
     IN  /\ server_data' = SaveServerData(server_data, DataKey(e.dm, e.user), e.data)
         /\ interaction' = [interaction EXCEPT ![i].pc = "reload"]
  /\ UNCHANGED <<overtook, fill, gone, msg_nodes, nodes, platform, next_msg_id, now, use_plain, arrivals,
                 active, faults, task>>

\* /known set: "Reload data after potential creation" and the assignment of
\* the stripped description, which raises KeyError when the reloaded guild
\* record has no entry of the target.
KnownReload(i) ==
  /\ i \in Pending("known", "reload")
  /\ LET e == interaction[i]
         ld == LoadServerData(server_data, DataKey(e.dm, e.user))
         raises == ~e.dm /\ e.target \notin DOMAIN ld.loaded.users
     IN  /\ server_data' = ld.data
         /\ interaction' = [interaction EXCEPT
               ![i].pc = "save",
               ![i].data = IF raises THEN ld.loaded
                           ELSE WithDescription(ld.loaded, e.dm, e.target, StripDescription(e.arg)),
               ![i].said = IF raises THEN <<"KeyError", "">> ELSE <<>>]
  /\ UNCHANGED <<overtook, fill, gone, msg_nodes, nodes, platform, next_msg_id, now, use_plain, arrivals,
                 active, faults, task>>

\* The save of a set or a remove completes and the command replies.
KnownSave(i) ==
  /\ i \in Pending("known", "save")
  /\ LET e == interaction[i]
     IN  /\ server_data' = SaveServerData(server_data, DataKey(e.dm, e.user), e.data)
         /\ interaction' = [interaction EXCEPT ![i].said =
                              IF e.action = "set" THEN <<"Description updated", "">>
                              ELSE <<"Description removed", "">>]
  /\ UNCHANGED <<overtook, fill, gone, msg_nodes, nodes, platform, next_msg_id, now, use_plain, arrivals,
                 active, faults, task>>

\* The lock the walk waited for is free.
Acquire(h) ==
  /\ task[h].pc = "acquire"
  /\ LockFree(nodes[task[h].curr_node])
  /\ Waited(h)
  /\ Resumed(h, WithLock(h, Mine(h)))
  /\ UNCHANGED <<server_data, interaction, fill, gone, platform, next_msg_id, now, use_plain, arrivals, active, faults>>

\* The downloads of the populate branch return.
ImagesDone(h, att_ok, url_ok) ==
  /\ task[h].pc = "pop_images"
  /\ MayRun(h)
  /\ <<att_ok, url_ok>> \in DownloadOutcomes(platform, task[h].curr_msg)
  /\ Resumed(h, PopulateImages(h, Mine(h), att_ok, url_ok))
  /\ UNCHANGED <<server_data, interaction, fill, gone, platform, next_msg_id, now, use_plain, arrivals, active, faults>>

\* The parent lookup returns or raises.
ParentDone(h, outcome) ==
  /\ task[h].pc = "pop_parent"
  /\ MayRun(h)
  /\ Resumed(h, PopulateParent(h, Mine(h), outcome))
  /\ Fault(IF outcome = "ok" THEN 0 ELSE 1)
  /\ UNCHANGED <<server_data, interaction, fill, gone, platform, next_msg_id, now, use_plain, arrivals, active>>

\* ------------------------------------------------ the platform's send/edit
\* A response message as the platform shows it: text is the embed's
\* description (rich) or the content (plain), warn says whether the embed
\* carries the warnings field.
BotMsg(text, color, warn, target, prev, dm) ==
  [author |-> BotUser, text |-> text, good |-> 0, bad |-> 0, urls |-> 0,
   ref |-> target, mention |-> FALSE, prev |-> prev, thread |-> NoMsg,
   kind |-> "reply", dm |-> dm, warn |-> warn, color |-> color]

\* message.edit(...): what the platform shows afterwards.
Edited(p, id, text, color, warn) ==
  [p EXCEPT ![id].text = text, ![id].color = color, ![id].warn = warn]

\* A record of the history field calls: the kind of call, the time it was
\* issued, the message it addressed and whether it succeeded.  An exception
\* raised by the generation call or by the stream is recorded as a failed
\* call of kind "raise".
Call(kind, id, ok) == [kind |-> kind, time |-> now, msg |-> id, ok |-> ok]

\* The sequence as it is (what C17 is checked against).
Forward(s) == s

\* s[::-1]
Reverse(s) == [i \in 1..Len(s) |-> s[Len(s) + 1 - i]]

\* channel.typing() and model.generate_content(messages[::-1], stream=True):
\* the call returns the stream (ok) or raises.
Generate(h, ok) ==
  /\ task[h].pc = "generate"
  /\ MayRun(h)
  /\ task' = [task EXCEPT ![h].pc = IF ok THEN "stream" ELSE "error",
                          ![h].submitted = Reverse(task[h].messages),
                          ![h].calls = IF ok THEN @ ELSE Append(@, Call("raise", NoMsg, FALSE))]
  /\ Fault(Failed(task'[h]) - Failed(task[h]))
  /\ UNCHANGED <<server_data, interaction, fill, gone, msg_nodes, nodes, platform, next_msg_id, now, use_plain, arrivals, active>>

\* reply_target of reply_helper.
ReplyTarget(t) ==
  IF t.response_msgs = <<>> THEN t.new_msg ELSE t.response_msgs[Len(t.response_msgs)]

\* The first message instead of the last (what C6 is checked against).
First(s) == s[1]

\* response_msgs[-1], response_contents[-1]
Last(s) == s[Len(s)]

\* An update that is always due (what C5 is checked against).
EditAlways(t) == TRUE

\* "time_since_edit >= EDIT_DELAY_SECONDS"
EditDue(t) == now - t.last_edit_time >= EDIT_DELAY_SECONDS

\* "len(response_contents[-1] + chunk_buffer) > max_message_length"
Overflows(t, buffer) ==
  /\ t.response_contents # <<>>
  /\ TextLen(Last(t.response_contents) \o buffer) > t.max_message_length

\* ------------------------------------------------------- the stream loop
\* The stream of the scenario: 'Hello ', 'world, ', 3800 more characters, 'overflow!'.
ScenarioStream == <<6, 7, 3800, 9>>

\* The delta lengths of the other runs: one character, or as many as a rich
\* message holds.
DeltaLens == {1, MaxMessageLength(FALSE)}

\* The lengths the delta after the first n deltas of a stream can have.
\* (In the concurrent runs a stream has at most one delta, of one character.)
NextDeltas(n) ==
  CASE arrivals = "scenario" ->
         (IF n < Len(ScenarioStream) THEN {ScenarioStream[n + 1]} ELSE {})
    [] arrivals \in {"concurrent", "gate", "prefs"} -> (IF n < 1 THEN {1} ELSE {})
    [] OTHER -> (IF n < MaxDeltas THEN DeltaLens ELSE {})

\* The stream can end after n deltas.
StreamMayEnd(n) == arrivals = "scenario" => n = Len(ScenarioStream)

\* One iteration of "for chunk in response": the stream yields a delta of len
\* characters (stream keeps the deltas received so far), the delta is appended
\* to chunk_buffer, then the message is split, started or updated.  e_ok and s_ok
\* say whether the edit and the send of this iteration succeed; an exception
\* raised inside the iteration is logged and the loop continues.  A send that
\* succeeded is completed by Register.
Chunk(h, len, e_ok, s_ok) ==
  /\ task[h].pc = "stream"
  /\ MayRun(h)
  /\ LET t == task[h]
         delta == <<0 - h, Len(t.stream) + 1, len>>
         buffer == Append(t.chunk_buffer, delta)
         rich == ~use_plain
         has_msg == t.response_msgs # <<>>
         t1 == [t EXCEPT !.stream = Append(@, delta), !.chunk_buffer = buffer, !.current_time = now]
     IN
     IF Overflows(t, buffer)
     THEN \* finalize the current message, start a new one with the buffer
       IF rich /\ ~(has_msg /\ e_ok)
       THEN \* response_msgs[-1] raises IndexError, or the edit raises
            /\ task' = [task EXCEPT ![h] = [t1 EXCEPT
                  !.calls = IF has_msg
                            THEN Append(@, Call("edit_split", Last(t.response_msgs), FALSE))
                            ELSE @]]
            /\ UNCHANGED <<platform, next_msg_id>>
       ELSE LET t2 == [t1 EXCEPT !.response_contents = Append(@, buffer),
                                 !.chunk_buffer = <<>>,
                                 !.embed_warn = IF rich THEN FALSE ELSE @,
                                 !.calls = IF rich
                                   THEN Append(@, Call("edit_split", Last(t.response_msgs), TRUE))
                                   ELSE @]
                p2 == IF rich
                      THEN Edited(platform, Last(t.response_msgs),
                                  Last(t.response_contents), "green", t.embed_warn)
                      ELSE platform
            IN  IF rich /\ s_ok
                THEN /\ platform' = p2 @@ (next_msg_id :>
                            BotMsg(Append(buffer, StreamingIndicator), "orange", FALSE,
                                   ReplyTarget(t), next_msg_id - 1, platform[t.new_msg].dm))
                     /\ next_msg_id' = next_msg_id + 1
                     /\ task' = [task EXCEPT ![h] = [t2 EXCEPT
                           !.sent = next_msg_id, !.pc = "register", !.resume = "stream",
                           !.calls = Append(@, Call("send", next_msg_id, TRUE))]]
                ELSE /\ platform' = p2
                     /\ next_msg_id' = next_msg_id
                     /\ task' = [task EXCEPT ![h] = [t2 EXCEPT
                           !.calls = IF rich THEN Append(@, Call("send", NoMsg, FALSE))
                                     ELSE @]]
     ELSE IF t.response_contents = <<>>
     THEN \* initialize the first message
       LET t2 == [t1 EXCEPT !.response_contents = <<buffer>>, !.chunk_buffer = <<>>]
       IN  IF rich /\ s_ok
           THEN /\ platform' = platform @@ (next_msg_id :>
                       BotMsg(Append(buffer, StreamingIndicator), "orange", t.embed_warn,
                              ReplyTarget(t), next_msg_id - 1, platform[t.new_msg].dm))
                /\ next_msg_id' = next_msg_id + 1
                /\ task' = [task EXCEPT ![h] = [t2 EXCEPT
                      !.sent = next_msg_id, !.pc = "register", !.resume = "stream",
                      !.calls = Append(@, Call("send", next_msg_id, TRUE))]]
           ELSE /\ task' = [task EXCEPT ![h] = [t2 EXCEPT
                      !.calls = IF rich THEN Append(@, Call("send", NoMsg, FALSE)) ELSE @]]
                /\ UNCHANGED <<platform, next_msg_id>>
     ELSE IF rich /\ EditDue(t)
     THEN \* update the message periodically
       IF has_msg /\ e_ok
       THEN /\ platform' = Edited(platform, Last(t.response_msgs),
                                  Append(Last(t.response_contents) \o buffer, StreamingIndicator),
                                  "orange", t.embed_warn)
            /\ task' = [task EXCEPT ![h] = [t1 EXCEPT
                  !.last_edit_time = now,
                  !.calls = Append(@, Call("edit_update", Last(t.response_msgs), TRUE))]]
            /\ UNCHANGED next_msg_id
       ELSE /\ task' = [task EXCEPT ![h] = [t1 EXCEPT
                  !.calls = IF has_msg
                            THEN Append(@, Call("edit_update", Last(t.response_msgs), FALSE))
                            ELSE @]]
            /\ UNCHANGED <<platform, next_msg_id>>
     ELSE /\ task' = [task EXCEPT ![h] = t1]
          /\ UNCHANGED <<platform, next_msg_id>>
  /\ Fault(Failed(task'[h]) - Failed(task[h]))
  /\ UNCHANGED <<server_data, interaction, fill, gone, msg_nodes, nodes, now, use_plain, arrivals, active>>

\* A final update that leaves chunk_buffer out (what C24 is checked against).
DropBuffer(contents, buffer) == contents

\* "if chunk_buffer: response_contents[-1] += chunk_buffer" of the final update.
FlushBuffer(contents, buffer) ==
  IF buffer # <<>> THEN [contents EXCEPT ![Len(contents)] = @ \o buffer] ELSE contents

\* The stream ends (ok): the loop is left and the final update adds what is
\* left in chunk_buffer to the last content; or the iterator raises, which
\* leaves the try block for the except clause.
StreamEnd(h, ok) ==
  /\ task[h].pc = "stream"
  /\ MayRun(h)
  /\ ok => StreamMayEnd(Len(task[h].stream))
  /\ LET t == task[h]
         n == Len(t.response_contents)
     IN  task' = [task EXCEPT ![h] =
           IF ~ok \/ (t.chunk_buffer # <<>> /\ n = 0)
           THEN [t EXCEPT !.pc = "error", !.calls = Append(@, Call("raise", NoMsg, FALSE))]
           ELSE [t EXCEPT !.pc = "final", !.fin_i = 0,
                          !.response_contents = FlushBuffer(@, t.chunk_buffer)]]
  /\ Fault(Failed(task'[h]) - Failed(task[h]))
  /\ UNCHANGED <<server_data, interaction, fill, gone, msg_nodes, nodes, platform, next_msg_id, now, use_plain, arrivals, active>>

\* The rest of reply_helper after "await reply_target.reply(...)" returned:
\* the message is appended to response_msgs, a node with parent_msg = new_msg
\* replaces whatever msg_nodes held for its id, and the node's lock is taken.
\* Then the caller goes on: the stream loop sets last_edit_time.
Register(h) ==
  /\ task[h].pc = "register"
  /\ MayRun(h)
  /\ LET t == task[h]
         oid == Len(nodes) + 1
     IN  /\ nodes' = Append(nodes, [NewNode(t.new_msg) EXCEPT !.lock = h])
         /\ msg_nodes' = [k \in DOMAIN msg_nodes \cup {t.sent} |->
                            IF k = t.sent THEN oid ELSE msg_nodes[k]]
         /\ task' = [task EXCEPT ![h].response_msgs = Append(@, t.sent),
                        ![h].sent = NoMsg,
                        ![h].pc = t.resume,
                        ![h].last_edit_time = IF t.resume = "stream" THEN t.current_time ELSE @,
                        ![h].fin_i = IF t.resume = "final" THEN @ + 1 ELSE @]
  /\ UNCHANGED <<server_data, interaction, fill, gone, platform, next_msg_id, now, use_plain, arrivals, active, faults>>

\* ------------------------------------------------------ the final update
\* One iteration of the loop of the final update.  Rich: message i is edited
\* to its content, without the marker, or sent when it does not exist yet.
\* Plain: the content is sent, or replaces an empty last message.  A call that
\* fails leaves the try block for the except clause.
FinalStep(h, ok) ==
  /\ task[h].pc = "final"
  /\ MayRun(h)
  /\ task[h].fin_i < Len(task[h].response_contents)
  /\ LET t == task[h]
         i == t.fin_i + 1
         content == t.response_contents[i]
         send == IF use_plain
                 THEN t.response_msgs = <<>> \/ platform[Last(t.response_msgs)].text # <<>>
                 ELSE i > Len(t.response_msgs)
         id == IF send THEN next_msg_id
               ELSE IF use_plain THEN Last(t.response_msgs) ELSE t.response_msgs[i]
         kind == IF send THEN "send_final" ELSE "edit_final"
         warn == IF use_plain THEN FALSE ELSE t.embed_warn
         color == IF use_plain THEN "none" ELSE "green"
     IN  IF ~ok
         THEN /\ task' = [task EXCEPT ![h].pc = "error",
                             ![h].calls = Append(@, Call(kind, IF send THEN NoMsg ELSE id, FALSE))]
              /\ UNCHANGED <<platform, next_msg_id>>
         ELSE IF send
         THEN /\ platform' = platform @@ (id :>
                     BotMsg(content, color, warn, ReplyTarget(t), next_msg_id - 1, platform[t.new_msg].dm))
              /\ next_msg_id' = next_msg_id + 1
              /\ task' = [task EXCEPT ![h].sent = id, ![h].pc = "register",
                             ![h].resume = "final",
                             ![h].calls = Append(@, Call(kind, id, TRUE))]
         ELSE /\ platform' = Edited(platform, id, content, color, warn)
              /\ task' = [task EXCEPT ![h].fin_i = i,
                             ![h].calls = Append(@, Call(kind, id, TRUE))]
              /\ UNCHANGED next_msg_id
  /\ Fault(Failed(task'[h]) - Failed(task[h]))
  /\ UNCHANGED <<server_data, interaction, fill, gone, msg_nodes, nodes, now, use_plain, arrivals, active>>

\* The except clause: the error text replaces what the last response message
\* shows, or is sent as a new message when there is none.  A call that fails
\* here raises out of on_message.
Error(h, ok) ==
  /\ task[h].pc = "error"
  /\ MayRun(h)
  /\ LET t == task[h]
         send == t.response_msgs = <<>>
         id == IF send THEN next_msg_id ELSE Last(t.response_msgs)
         kind == IF send THEN "send_error" ELSE "edit_error"
         warn == IF use_plain THEN FALSE ELSE t.embed_warn
         color == IF use_plain THEN "none" ELSE "red"
     IN  IF ~ok
         THEN /\ task' = [task EXCEPT ![h].pc = "crashed",
                             ![h].calls = Append(@, Call(kind, IF send THEN NoMsg ELSE id, FALSE))]
              /\ UNCHANGED <<platform, next_msg_id>>
         ELSE IF send
         THEN /\ platform' = platform @@ (id :>
                     BotMsg(ErrorText, color, warn, ReplyTarget(t), next_msg_id - 1, platform[t.new_msg].dm))
              /\ next_msg_id' = next_msg_id + 1
              /\ task' = [task EXCEPT ![h].sent = id, ![h].pc = "register",
                             ![h].resume = "store",
                             ![h].calls = Append(@, Call(kind, id, TRUE))]
         ELSE /\ platform' = Edited(platform, id, ErrorText, color, warn)
              /\ task' = [task EXCEPT ![h].pc = "store",
                             ![h].calls = Append(@, Call(kind, id, TRUE))]
              /\ UNCHANGED next_msg_id
  /\ Fault(Failed(task'[h]) - Failed(task[h]))
  /\ UNCHANGED <<server_data, interaction, fill, gone, msg_nodes, nodes, now, use_plain, arrivals, active>>

\* --------------------------------------------- store the response, evict
RECURSIVE StoreResponse(_, _, _, _)
\* for response_msg in response_msgs:
\*     msg_nodes[response_msg.id].text = "".join(response_contents)
\*     msg_nodes[response_msg.id].lock.release()
\* on the objects objs; ok is false when a lookup raises KeyError or a release
\* raises RuntimeError (the lock is not held).
StoreResponse(map, objs, ids, text) ==
  IF ids = <<>> THEN [objs |-> objs, ok |-> TRUE]
  ELSE LET id == Head(ids) IN
       IF id \notin DOMAIN map THEN [objs |-> objs, ok |-> FALSE]
       ELSE LET oid == map[id]
                set == [objs EXCEPT ![oid].text = <<text>>]
            IN  IF objs[oid].lock = 0 THEN [objs |-> set, ok |-> FALSE]
                ELSE StoreResponse(map, [set EXCEPT ![oid].lock = 0], Tail(ids), text)

\* A clean-up that removes one key more (what C10 is checked against).
EvictOneMore(map, removed) ==
  OldestKeys(map, removed, Size(map, removed) - MAX_MESSAGE_NODES + 1)

\* The keys the clean-up removes: sorted(msg_nodes.keys())[: num_nodes - MAX_MESSAGE_NODES]
EvictionKeys(map, removed) ==
  OldestKeys(map, removed, Size(map, removed) - MAX_MESSAGE_NODES)

\* msg_nodes.pop(key, None), for a key of the run (c.map) or of another
\* conversation (c.gone).
Pop(c, key) ==
  IF key \in DOMAIN c.map
  THEN [c EXCEPT !.map = [k \in DOMAIN c.map \ {key} |-> c.map[k]]]
  ELSE IF key \in FillerKeys(fill) THEN [c EXCEPT !.gone = @ \cup {key}]
  ELSE c

\* The lock of the node that msg_nodes.setdefault(key, MsgNode()) returns is held.
Held(c, objs, key) ==
  /\ key \in DOMAIN c.map
  /\ (~LockFree(objs[c.map[key]]) \/ Waiters(c.map[key]) # {})

RECURSIVE EvictRun(_, _, _, _, _)
\* The loop of the clean-up from index i on, up to the first key whose node
\* is locked (the task then waits for that lock) or to the end of the list.
EvictRun(c, objs, list, i, removed) ==
  IF i > Len(list) THEN [c |-> c, idx |-> i, removed |-> removed]
  ELSE IF Held(c, objs, list[i]) THEN [c |-> c, idx |-> i, removed |-> removed]
  ELSE EvictRun(Pop(c, list[i]), objs, list, i + 1, removed \cup {list[i]})

\* "Store final response" and "Clean up old message nodes", up to the end of
\* the handler or to the first node whose lock the clean-up must wait for.
Finish(h) ==
  /\ \/ task[h].pc = "store"
     \/ task[h].pc = "final" /\ task[h].fin_i = Len(task[h].response_contents)
  /\ MayRun(h)
  /\ LET t == task[h]
         st == StoreResponse(msg_nodes, nodes, t.response_msgs, Join(t.response_contents))
         list == IF Size(msg_nodes, gone) > MAX_MESSAGE_NODES
                 THEN EvictionKeys(msg_nodes, gone) ELSE <<>>
         run == EvictRun([map |-> msg_nodes, gone |-> gone], st.objs, list, 1, {})
         blocked == run.idx <= Len(list)
     IN  /\ nodes' = st.objs
         /\ IF ~st.ok
            THEN /\ task' = [task EXCEPT ![h].pc = "crashed"]
                 /\ UNCHANGED <<msg_nodes, gone>>
            ELSE /\ msg_nodes' = run.c.map
                 /\ gone' = run.c.gone
                 /\ task' = [task EXCEPT
                       ![h].pc = IF blocked THEN "evict_wait" ELSE "done",
                       ![h].evict_list = list, ![h].evict_idx = run.idx,
                       ![h].evict_node = IF blocked THEN run.c.map[list[run.idx]] ELSE 0,
                       ![h].evict_start = IF list = <<>> THEN @
                                            ELSE [own |-> DOMAIN msg_nodes, gone |-> gone],
                       ![h].evict_removed = run.removed,
                       ![h].evict_end = IF blocked THEN 0
                                        ELSE Size(run.c.map, run.c.gone)]
  /\ UNCHANGED <<server_data, interaction, fill, platform, next_msg_id, now, use_plain, arrivals, active, faults>>

\* The lock the clean-up waited for is free: the entry of the key is removed
\* and the loop goes on.
EvictResume(h) ==
  /\ task[h].pc = "evict_wait"
  /\ LockFree(nodes[task[h].evict_node])
  /\ Waited(h)
  /\ LET t == task[h]
         key == t.evict_list[t.evict_idx]
         run == EvictRun(Pop([map |-> msg_nodes, gone |-> gone], key), nodes, t.evict_list,
                         t.evict_idx + 1, t.evict_removed \cup {key})
         blocked == run.idx <= Len(t.evict_list)
     IN  /\ msg_nodes' = run.c.map
         /\ gone' = run.c.gone
         /\ task' = [task EXCEPT
               ![h].pc = IF blocked THEN "evict_wait" ELSE "done",
               ![h].evict_idx = run.idx,
               ![h].evict_node = IF blocked THEN run.c.map[t.evict_list[run.idx]] ELSE 0,
               ![h].evict_removed = run.removed,
               ![h].evict_end = IF blocked THEN 0
                                ELSE Size(run.c.map, run.c.gone)]
  /\ UNCHANGED <<server_data, interaction, fill, nodes, platform, next_msg_id, now, use_plain, arrivals, active, faults>>

\* Time passes.  The program reads the clock in the stream loop only, so the
\* model lets it advance only while a handler is in that loop.
Tick ==
  /\ now < MaxTime
  /\ \E h \in Handlers : task[h].pc = "stream"
  /\ now' = now + 1
  /\ UNCHANGED <<overtook, server_data, interaction, fill, gone, msg_nodes, nodes, platform, next_msg_id, use_plain, arrivals, active, task, faults>>

\* ------------------------------------------------------------ environment
\* The messages 1..NumOld that exist before the first event, all by user 1 in
\* one guild channel.  kinds[m].len is the length of the text of m;
\* kinds[m].link says how m continues the message before it: a reply to it,
\* a plain follow-up by the same author, or not at all (it mentions the bot).
OldKinds == [len : {0, 1}, link : {"none", "reply", "prev"}]

OldPlatform(kinds) ==
  [m \in OldMsgs |->
     UserMsg(1, UserText(m, kinds[m].len), 0, 0, 0,
             IF kinds[m].link = "reply" THEN m - 1 ELSE NoMsg,
             kinds[m].link = "none", m - 1, NoMsg, FALSE)]

\* The node a completed walk leaves for old message m of platform p.
RECURSIVE WalkedNodes(_, _)
WalkedNodes(p, k) ==
  IF k = 0 THEN <<>>
  ELSE LET msg == p[k]
           par == IF msg.ref = NoMsg /\ ~msg.mention /\ msg.prev # NoMsg
                  THEN msg.prev ELSE msg.ref
       IN  Append(WalkedNodes(p, k - 1),
                  [text |-> <<msg.text>>, images |-> 0, role |-> "user", user_id |-> msg.author,
                   has_bad_attachments |-> FALSE, fetch_parent_failed |-> FALSE,
                   parent_msg |-> par, lock |-> 0, pops |-> 1, resolved |-> TRUE,
                   torn |-> FALSE, unresolved |-> 0])

\* The trigger messages of the walk specification: every combination of a
\* text that is empty, short or longer than max_text, no image attachment or
\* more than max_images, with or without a non-image attachment and image URLs.
WalkArrivals ==
  [author : {1}, len : {0, 1, max_text + 1}, good : {0, max_images + 1}, bad : {0, 1},
   urls : {0, max_urls + 1}, reply : {TRUE}, mention : {TRUE}, dm : {FALSE}, thread : {FALSE}]

\* The walk up to the generation call: one handler, a trigger message that
\* replies to an old message, the old messages cached by an earlier walk or
\* not at all.
InitWalk ==
  /\ \E kinds \in [OldMsgs -> OldKinds] :
       /\ platform = OldPlatform(kinds)
       /\ \E cached \in {0, NumOld} :
            /\ msg_nodes = [m \in 1..cached |-> m]
            /\ nodes = WalkedNodes(OldPlatform(kinds), cached)
  /\ fill = 0
  /\ gone = {}
  /\ next_msg_id = NumOld + 1
  /\ now = EDIT_DELAY_SECONDS
  /\ use_plain = FALSE
  /\ arrivals = "walk"
  /\ faults = 0
  /\ server_data = <<>>
  /\ interaction = <<>>
  /\ overtook = {}
  /\ active = Solo
  /\ task = [h \in Handlers |-> IdleTask]

NextWalk ==
  \E h \in Solo :
    \/ /\ task[h].pc = "idle"
       /\ \E tpl \in WalkArrivals, target \in DOMAIN platform : Start(h, tpl, target)
    \/ \E a \in 0..max_images, u \in 0..max_images : ImagesDone(h, a, u)
    \/ \E o \in {"ok", "fetch_error", "other_error"} : ParentDone(h, o)
    \/ \E ok \in BOOLEAN : Generate(h, ok)

SpecWalk == InitWalk /\ [][NextWalk]_vars


\* The old messages of the lineage specification, one more than elsewhere.
ParentOld == 1..(NumOld + 1)

\* An old message of the lineage specification is written by the user or by
\* the bot and is: one that mentions the bot ("none"), a reply to the message
\* before it, a plain message without mention or reference ("prev"), a system
\* message such as a member's join notice ("system"), or a plain message
\* posted in the public thread ("thread").
ParentKinds == [author : {1, BotUser}, link : {"none", "reply", "prev", "system", "thread"}]

\* The old messages of the lineage specification: all of them in the
\* direct-message channel (dm), or in the guild channel and its thread, which
\* message ThreadStarter starts.
ParentPlatform(kinds, dm) ==
  [m \in ParentOld |->
     LET thread == IF kinds[m].link = "thread" THEN ThreadStarter ELSE NoMsg
         before == {k \in ParentOld : k < m /\ (kinds[k].link = "thread") = (kinds[m].link = "thread")}
         prev == IF before = {} THEN NoMsg ELSE CHOOSE k \in before : \A x \in before : x <= k
         msg == UserMsg(kinds[m].author, UserText(m, IF kinds[m].link = "system" THEN 0 ELSE 1),
                        0, 0, 0, IF kinds[m].link = "reply" THEN m - 1 ELSE NoMsg,
                        kinds[m].link = "none", prev, thread, dm)
     IN  IF kinds[m].link = "system" THEN [msg EXCEPT !.kind = "new_member"] ELSE msg]

\* The trigger messages of the lineage specification: a one-character text,
\* with or without an image attachment, a reply or not, in the thread or not.
ParentArrivals ==
  [author : {1}, len : {1}, good : {0, 1}, bad : {0}, urls : {0}, reply : BOOLEAN,
   mention : BOOLEAN, dm : BOOLEAN, thread : BOOLEAN]

\* One handler, an empty cache; the first old message mentions the bot, a
\* reply has a message to reply to and there are no threads in direct messages.
InitParent ==
  /\ \E dm \in BOOLEAN, kinds \in [ParentOld -> ParentKinds] :
       /\ kinds[1].link = "none"
       /\ \A m \in ParentOld : dm => kinds[m].link # "thread"
       /\ platform = ParentPlatform(kinds, dm)
  /\ msg_nodes = <<>>
  /\ fill = 0
  /\ gone = {}
  /\ nodes = <<>>
  /\ next_msg_id = NumOld + 2
  /\ now = EDIT_DELAY_SECONDS
  /\ use_plain = FALSE
  /\ arrivals = "parent"
  /\ faults = 0
  /\ server_data = <<>>
  /\ interaction = <<>>
  /\ overtook = {}
  /\ active = Solo
  /\ task = [h \in Handlers |-> IdleTask]

\* The trigger is posted where the old messages are; in the guild it
\* mentions the bot.
NextParent ==
  \E h \in Solo :
    \/ /\ task[h].pc = "idle"
       /\ \E tpl \in ParentArrivals, target \in DOMAIN platform :
            /\ tpl.dm = platform[1].dm
            /\ tpl.dm => ~tpl.thread
            /\ ~tpl.dm => tpl.mention
            /\ Start(h, tpl, target)
    \/ \E a \in 0..max_images, u \in 0..max_images : ImagesDone(h, a, u)
    \/ \E o \in {"ok", "fetch_error", "other_error"} : ParentDone(h, o)

SpecParent == InitParent /\ [][NextParent]_vars

\* The old messages of the other specifications: message 1 mentions the bot,
\* every later one replies to the one before it; each has a one-character text.
ChainKinds == [m \in OldMsgs |-> [len |-> 1, link |-> IF m = 1 THEN "none" ELSE "reply"]]

\* The trigger messages of the streaming specification: a one-character
\* text that mentions the bot, with or without a non-image attachment.
StreamArrivals ==
  [author : {1}, len : {1}, good : {0}, bad : {0, 1}, urls : {0}, reply : {FALSE},
   mention : {TRUE}, dm : {FALSE}, thread : {FALSE}]

\* One handler, rich or plain responses, an empty cache.
InitStream ==
  /\ platform = OldPlatform(ChainKinds)
  /\ msg_nodes = <<>>
  /\ fill = 0
  /\ gone = {}
  /\ nodes = <<>>
  /\ next_msg_id = NumOld + 1
  /\ now = EDIT_DELAY_SECONDS
  /\ use_plain \in BOOLEAN
  /\ arrivals = "stream"
  /\ faults = 0
  /\ server_data = <<>>
  /\ interaction = <<>>
  /\ overtook = {}
  /\ active = Solo
  /\ task = [h \in Handlers |-> IdleTask]

\* The trigger message of the scenario: a one-character text that mentions the bot.
ScenarioArrivals ==
  [author : {1}, len : {1}, good : {0}, bad : {0}, urls : {0}, reply : {FALSE},
   mention : {TRUE}, dm : {FALSE}, thread : {FALSE}]

\* The trigger messages of the concurrent specification: a reply to any
\* message, with an empty or a one-character text.
ConcurrentArrivals ==
  [author : {1}, len : {0, 1}, good : {0}, bad : {0}, urls : {0}, reply : {TRUE},
   mention : {TRUE}, dm : {FALSE}, thread : {FALSE}]

\* The trigger messages of the clean-up specification: a one-character text
\* that mentions the bot, with or without a reply to the newest old message.
EvictArrivals ==
  [author : {1}, len : {1}, good : {0}, bad : {0}, urls : {0}, reply : BOOLEAN,
   mention : {TRUE}, dm : {FALSE}, thread : {FALSE}]

\* The messages the environment may post in this run.
Arrivals ==
  CASE arrivals = "walk" -> WalkArrivals
    [] arrivals = "stream" -> StreamArrivals
    [] arrivals = "scenario" -> ScenarioArrivals
    [] arrivals = "concurrent" -> ConcurrentArrivals
    [] arrivals = "evict" -> EvictArrivals
    [] OTHER -> {}

\* A message for the bot arrives and handler h starts.
Arrive(h) ==
  /\ task[h].pc = "idle"
  /\ \E tpl \in Arrivals, target \in DOMAIN platform : Start(h, tpl, target)

\* The steps of handler h after its walk.
Respond(h) ==
  \/ \E ok \in BOOLEAN : Generate(h, ok)
  \/ \E len \in NextDeltas(Len(task[h].stream)), e_ok \in BOOLEAN, s_ok \in BOOLEAN :
       Chunk(h, len, e_ok, s_ok)
  \/ \E ok \in BOOLEAN : StreamEnd(h, ok)
  \/ Register(h)
  \/ \E ok \in BOOLEAN : FinalStep(h, ok)
  \/ \E ok \in BOOLEAN : Error(h, ok)
  \/ Finish(h)

NextStream == Tick \/ \E h \in Solo : Arrive(h) \/ Respond(h)

SpecStream == InitStream /\ [][NextStream]_vars

InitScenario ==
  /\ platform = OldPlatform(ChainKinds)
  /\ msg_nodes = <<>>
  /\ fill = 0
  /\ gone = {}
  /\ nodes = <<>>
  /\ next_msg_id = NumOld + 1
  /\ now = EDIT_DELAY_SECONDS
  /\ use_plain = FALSE
  /\ arrivals = "scenario"
  /\ faults = 0
  /\ server_data = <<>>
  /\ interaction = <<>>
  /\ overtook = {}
  /\ active = Solo
  /\ task = [h \in Handlers |-> IdleTask]

SpecScenario == InitScenario /\ [][NextStream]_vars

\* The trigger messages of the gate specification: a one-character text in
\* the guild channel or in a direct message, with or without a mention.
GateArrivals ==
  [author : {1}, len : {1}, good : {0}, bad : {0}, urls : {0}, reply : {FALSE},
   mention : BOOLEAN, dm : BOOLEAN, thread : {FALSE}]

\* One handler, rich responses, an empty cache, no stored preferences.
InitGate ==
  /\ platform = OldPlatform(ChainKinds)
  /\ msg_nodes = <<>>
  /\ fill = 0
  /\ gone = {}
  /\ nodes = <<>>
  /\ next_msg_id = NumOld + 1
  /\ now = EDIT_DELAY_SECONDS
  /\ use_plain = FALSE
  /\ arrivals = "gate"
  /\ faults = 0
  /\ server_data = <<>>
  /\ interaction = <<>>
  /\ overtook = {}
  /\ active = Solo
  /\ task = [h \in Handlers |-> IdleTask]

NextGate ==
  \E h \in Solo :
    \/ \E tpl \in GateArrivals : \E m \in GateMessages(tpl.dm) : Deliver(h, tpl, m)
    \/ \E c \in Configs : Gate(h, c)
    \/ LoadData(h)
    \/ UserLoad(h)
    \/ UserSave(h)
    \/ \E o \in {"ok", "fetch_error", "other_error"} : ParentDone(h, o)
    \/ Respond(h)

SpecGate == InitGate /\ [][NextGate]_vars

\* The trigger messages of the preferences specification: a one-character
\* text in the guild channel or in a direct message, by user 1, with or
\* without a mention.
PrefsArrivals ==
  [author : {1}, len : {1}, good : {0}, bad : {0}, urls : {0}, reply : {FALSE},
   mention : BOOLEAN, dm : BOOLEAN, thread : {FALSE}]

\* The configuration of the preferences specification: user 1 is the admin,
\* the lists are empty and direct messages are allowed.
PrefsConfigs ==
  {c \in Configs : /\ c.allow_dms /\ c.admin_ids = StartupAdmins
                   /\ c.allowed_user_ids = {} /\ c.blocked_user_ids = {}
                   /\ c.allowed_role_ids = {} /\ c.blocked_role_ids = {}
                   /\ c.allowed_channel_ids = {} /\ c.blocked_channel_ids = {}}

\* The users who run slash commands: the admin and another user.
CommandUsers == {1, 2}

\* All handlers, rich responses, an empty cache, no stored preferences; the
\* messages and the /model commands arrive in any order.
InitPrefs ==
  /\ platform = OldPlatform(ChainKinds)
  /\ msg_nodes = <<>>
  /\ fill = 0
  /\ gone = {}
  /\ nodes = <<>>
  /\ next_msg_id = NumOld + 1
  /\ now = EDIT_DELAY_SECONDS
  /\ use_plain = FALSE
  /\ arrivals = "prefs"
  /\ faults = 0
  /\ server_data = <<>>
  /\ interaction = <<>>
  /\ overtook = {}
  /\ active = Solo
  /\ task = [h \in Handlers |-> IdleTask]

NextPrefs ==
  \/ \E h \in Solo :
       \/ \E tpl \in PrefsArrivals : \E m \in {g \in GateMessages(tpl.dm) : ~g.bot} :
            Deliver(h, tpl, m)
       \/ \E c \in PrefsConfigs : Gate(h, c)
       \/ LoadData(h)
       \/ UserLoad(h)
       \/ UserSave(h)
       \/ \E o \in {"ok", "fetch_error", "other_error"} : ParentDone(h, o)
       \/ Respond(h)
  \/ \E user \in CommandUsers, dm \in BOOLEAN, model \in ModelArgs : ModelCommand(user, dm, model)
  \/ \E i \in DOMAIN interaction : ModelSave(i)

SpecPrefs == InitPrefs /\ [][NextPrefs]_vars

\* The trigger messages of the commands specification: a one-character text
\* by user 2 that mentions the bot, in the guild channel or in a
\* direct message.
CommandArrivals ==
  [author : {2}, len : {1}, good : {0}, bad : {0}, urls : {0}, reply : {FALSE},
   mention : {TRUE}, dm : BOOLEAN, thread : {FALSE}]

\* The /known commands of the commands specification: a description only
\* with set.
KnownArgs ==
  {a \in [action : {"view", "set", "remove"}, description : Descriptions,
          user : {NoMsg} \cup CommandUsers] :
     a.action # "set" => a.description = 0}

\* The /prompt commands of the commands specification: a text only with set.
PromptArgs ==
  {a \in [action : {"view", "set", "reset"}, text : PromptTexts] :
     a.action # "set" => a.text = ""}

\* One handler up to its system prompt, no stored preferences; the message
\* and the /model, /prompt and /known commands arrive in any order and their
\* file operations interleave.
InitCommands ==
  /\ platform = OldPlatform(ChainKinds)
  /\ msg_nodes = <<>>
  /\ fill = 0
  /\ gone = {}
  /\ nodes = <<>>
  /\ next_msg_id = NumOld + 1
  /\ now = EDIT_DELAY_SECONDS
  /\ use_plain = FALSE
  /\ arrivals = "commands"
  /\ faults = 0
  /\ server_data = <<>>
  /\ interaction = <<>>
  /\ overtook = {}
  /\ active = Solo
  /\ task = [h \in Handlers |-> IdleTask]

NextCommands ==
  \/ \E h \in Solo :
       \/ \E tpl \in CommandArrivals :
            \E m \in {g \in GateMessages(tpl.dm) : ~g.bot /\ g.role_ids = {}} : Deliver(h, tpl, m)
       \/ \E c \in PrefsConfigs : Gate(h, c)
       \/ LoadData(h)
       \/ UserLoad(h)
       \/ UserSave(h)
  \/ \E user \in CommandUsers, dm \in BOOLEAN :
       \/ \E model \in ModelArgs : ModelCommand(user, dm, model)
       \/ \E a \in PromptArgs : PromptCommand(user, dm, a.action, a.text)
       \/ \E a \in KnownArgs : KnownCommand(user, dm, a.action, a.description, a.user)
  \/ \E i \in 1..MaxCommands :
       \/ ModelSave(i)
       \/ PromptSave(i)
       \/ KnownUserLoad(i)
       \/ KnownUserSave(i)
       \/ KnownReload(i)
       \/ KnownSave(i)

SpecCommands == InitCommands /\ [][NextCommands]_vars

\* All handlers, rich responses, a cache one entry short of MAX_MESSAGE_NODES.
Init ==
  /\ platform = OldPlatform(ChainKinds)
  /\ msg_nodes = <<>>
  /\ fill = MAX_MESSAGE_NODES - 1
  /\ gone = {}
  /\ nodes = <<>>
  /\ next_msg_id = NumOld + MAX_MESSAGE_NODES
  /\ now = EDIT_DELAY_SECONDS
  /\ use_plain = FALSE
  /\ arrivals = "concurrent"
  /\ faults = 0
  /\ server_data = <<>>
  /\ interaction = <<>>
  /\ overtook = {}
  /\ active = 1..NumConcurrent
  /\ task = [h \in Handlers |-> IdleTask]

Next ==
  \E h \in Handlers :
    \/ Arrive(h)
    \/ Acquire(h)
    \/ \E o \in {"ok", "fetch_error", "other_error"} : ParentDone(h, o)
    \/ Respond(h)
    \/ EvictResume(h)

Spec == Init /\ [][Next]_vars

\* Four handlers, messages that reply to the newest old message or to none, no failing call,
\* streams that end without a delta, a cache one entry short of
\* MAX_MESSAGE_NODES: the runs in which several clean-ups and several walks
\* meet at the same old message.
InitEvict ==
  /\ platform = OldPlatform(ChainKinds)
  /\ msg_nodes = <<>>
  /\ fill = MAX_MESSAGE_NODES - 1
  /\ gone = {}
  /\ nodes = <<>>
  /\ next_msg_id = NumOld + MAX_MESSAGE_NODES
  /\ now = EDIT_DELAY_SECONDS
  /\ use_plain = FALSE
  /\ arrivals = "evict"
  /\ faults = 0
  /\ server_data = <<>>
  /\ interaction = <<>>
  /\ overtook = {}
  /\ active = Handlers
  /\ task = [h \in Handlers |-> IdleTask]

NextEvict ==
  \E h \in Handlers :
    \/ \E tpl \in Arrivals : Start(h, tpl, NumOld)
    \/ Acquire(h)
    \/ ParentDone(h, "ok")
    \/ Generate(h, TRUE)
    \/ StreamEnd(h, TRUE)
    \/ Finish(h)
    \/ EvictResume(h)

SpecEvict == InitEvict /\ [][NextEvict]_vars

\* ================================================================ claims

\* Handler h is inside the populate branch of its current node, suspended
\* at a download or at the parent lookup.
InPopulate(h) == task[h].pc \in {"pop_images", "pop_parent"}

\* C1: however many handlers walk through the same message, the populate
\* branch runs at most once on a node, no two handlers are inside the
\* populate branch of the same node, the handler inside it holds the node's
\* lock, and no handler reads a node's fields while another is populating it.
C1_PopulateOnce ==
  /\ \A oid \in DOMAIN nodes : nodes[oid].pops <= 1 /\ ~nodes[oid].torn
  /\ \A h \in Handlers : InPopulate(h) => nodes[task[h].curr_node].lock = h
  /\ \A h1, h2 \in Handlers :
       (h1 # h2 /\ InPopulate(h1) /\ InPopulate(h2))
         => task[h1].curr_node # task[h2].curr_node

\* C1, its case: a handler waits for the lock of a node that another
\* handler is populating.
C1_Waiting ==
  \E h1, h2 \in Handlers :
    /\ h1 # h2
    /\ InPopulate(h1)
    /\ task[h2].pc = "acquire"
    /\ task[h2].curr_node = task[h1].curr_node
    /\ nodes[task[h1].curr_node].pops = 1

\* C2: the walk collects at most max_messages turns, and no turn carries
\* more than max_images images.
C2_WalkBounds ==
  \A h \in Handlers :
    /\ Len(task[h].messages) <= max_messages
    /\ \A i \in DOMAIN task[h].messages : task[h].messages[i].images <= max_images

\* C2, its case: a finished walk with max_messages turns, one of them with
\* max_images images.
C2_FullWalk ==
  \E h \in Handlers :
    /\ task[h].pc = "generate"
    /\ Len(task[h].messages) = max_messages
    /\ \E i \in DOMAIN task[h].messages : task[h].messages[i].images = max_images

\* C3: the walk makes at most max_messages iterations of its loop.
C3_IterationBound ==
  \A h \in Handlers : task[h].iters <= max_messages

\* The handler ended normally: no call failed and nothing raised.
NormalEnd(t) == t.pc = "done" /\ Failed(t) = 0

\* The deltas of the scenario as handler h receives them.
ScenarioText(h) == [i \in DOMAIN ScenarioStream |-> <<0 - h, i, ScenarioStream[i]>>]

\* The response messages on the platform.
BotMessages == {m \in DOMAIN platform : platform[m].author = BotUser}

\* C4 as stated: with the deltas 'Hello ', 'world, ', 3800 characters,
\* 'overflow!' a response that ends normally consists of exactly two
\* messages, and the second one shows only the overflow text.
C4_TwoMessages ==
  \A h \in Handlers :
    NormalEnd(task[h]) =>
      /\ Len(task[h].response_msgs) = 2
      /\ platform[task[h].response_msgs[2]].text = <<ScenarioText(h)[4]>>

\* C4, amended: the four deltas (3822 characters) fit one message: at most
\* one message is ever sent, and a response that ends normally consists of
\* exactly one message, which shows the four deltas in order.
C4_OneMessage ==
  /\ Cardinality(BotMessages) <= 1
  /\ \A h \in Handlers :
       NormalEnd(task[h]) =>
         /\ Len(task[h].response_msgs) = 1
         /\ task[h].response_contents = <<ScenarioText(h)>>
         /\ platform[task[h].response_msgs[1]].text = ScenarioText(h)

\* C4, its case: the scenario's response has ended normally.
C4_ScenarioDone ==
  \E h \in Handlers : NormalEnd(task[h]) /\ Len(task[h].stream) = Len(ScenarioStream)

C7_ResponseLocksReleased ==
  \A h \in Handlers :
    task[h].pc \in {"done", "crashed"} =>
      \A k \in DOMAIN task[h].response_msgs :
        LET id == task[h].response_msgs[k]
        IN  id \in DOMAIN msg_nodes =>
              /\ LockFree(nodes[msg_nodes[id]])
              /\ nodes[msg_nodes[id]].text # <<>>

\* C8: no node is left populated (text set, lock free) with its role,
\* author or parent never resolved.
C8_NoHalfPopulated ==
  \A oid \in DOMAIN nodes :
    (nodes[oid].pops > 0 /\ LockFree(nodes[oid])) => nodes[oid].resolved

\* C9: when a handler completes its eviction step, the cache holds at most
\* MAX_MESSAGE_NODES entries.
C9_CacheBounded ==
  \A h \in Handlers : task[h].evict_end <= MAX_MESSAGE_NODES

\* The keys present when handler t started its eviction step.
EvictStartKeys(t) == t.evict_start.own \cup (FillerKeys(fill) \ t.evict_start.gone)

\* C10: an eviction step that starts with n > MAX_MESSAGE_NODES entries
\* removes the n - MAX_MESSAGE_NODES smallest keys present at that moment, in
\* ascending order: every key it has removed is one of them, every key
\* present at the start that it keeps is larger than all of them, and when it
\* completes it has removed them all.
C10_OldestFirst ==
  \A h \in Handlers :
    LET t == task[h]
        l == t.evict_list
        start == EvictStartKeys(t)
        chosen == {l[i] : i \in DOMAIN l}
    IN  l # <<>> =>
          /\ Len(l) = Cardinality(start) - MAX_MESSAGE_NODES
          /\ chosen \subseteq start
          /\ \A i, j \in DOMAIN l : i < j => l[i] < l[j]
          /\ \A k \in start \ chosen : \A i \in DOMAIN l : l[i] < k
          /\ t.evict_removed = {l[i] : i \in 1..(t.evict_idx - 1)}
          /\ t.pc = "done" => t.evict_removed = chosen

\* C10, its case: an eviction step has completed and removed several keys.
C10_Evicted ==
  \E h \in Handlers :
    /\ task[h].pc = "done"
    /\ Len(task[h].evict_list) >= 2
    /\ task[h].evict_removed = {task[h].evict_list[i] : i \in DOMAIN task[h].evict_list}

\* The walk of handler t has ended and the handler has gone on to the response.
WalkDone(t) ==
  t.pc \notin {"idle", "ignored", "config", "denied", "load", "acquire", "pop_images",
               "pop_parent", "crashed"}

\* A turn of handler t comes from a message whose text is longer than max_text
\* only if the warnings say so.
TextDropsWarned(t) ==
  \A i \in DOMAIN t.messages :
    TextLen(platform[t.messages[i].msg].text) > max_text
      => <<"max_text", max_text>> \in t.user_warnings

\* A turn of handler t comes from a message with more image attachments than
\* max_images only if the warnings say so.
ImageDropsWarned(t) ==
  \A i \in DOMAIN t.messages :
    platform[t.messages[i].msg].good > max_images
      => <<"max_images", max_images>> \in t.user_warnings

\* The message of the max_messages-th turn of handler t has a parent only if
\* the warnings say that only the last max_messages messages are used.
LineageDropsWarned(t) ==
  (/\ Len(t.messages) = max_messages
   /\ t.messages[max_messages].msg \in DOMAIN msg_nodes
   /\ nodes[msg_nodes[t.messages[max_messages].msg]].parent_msg # NoMsg)
    => <<"only_last", max_messages>> \in t.user_warnings

\* C11: when a walk has ended, every bound it applied is named in the
\* warnings: text cut to max_text, images beyond max_images left out, a
\* lineage cut after max_messages turns.
C11_DropsWarned ==
  \A h \in Handlers :
    WalkDone(task[h]) =>
      /\ TextDropsWarned(task[h])
      /\ ImageDropsWarned(task[h])
      /\ LineageDropsWarned(task[h])

\* C11 without the images: cut texts and cut lineages are named in the warnings.
C11_TextAndLineageWarned ==
  \A h \in Handlers :
    WalkDone(task[h]) => TextDropsWarned(task[h]) /\ LineageDropsWarned(task[h])

\* C12: a response that ends normally after a walk with warnings shows the
\* warnings on its first message.
C12_WarningsShown ==
  \A h \in Handlers :
    (NormalEnd(task[h]) /\ task[h].user_warnings # {} /\ task[h].stream # <<>>)
      => /\ task[h].response_msgs # <<>>
         /\ platform[task[h].response_msgs[1]].warn

\* C12 for rich responses of one message: the message shows the warnings.
C12_SingleRichShown ==
  \A h \in Handlers :
    (/\ NormalEnd(task[h])
     /\ task[h].user_warnings # {}
     /\ ~use_plain
     /\ Len(task[h].response_msgs) = 1)
      => platform[task[h].response_msgs[1]].warn

\* C12 for rich responses of several messages (it fails: the final update
\* edits every message with the embed made at the last split, which has no
\* warnings field).
C12_SplitRichShown ==
  \A h \in Handlers :
    (/\ NormalEnd(task[h])
     /\ task[h].user_warnings # {}
     /\ ~use_plain
     /\ Len(task[h].response_msgs) > 1)
      => platform[task[h].response_msgs[1]].warn

\* The node msg_nodes holds for the trigger message of handler t.
TriggerNode(t) == nodes[msg_nodes[t.new_msg]]

\* C13: when the walk has ended and the download of an image attachment of
\* the trigger message returned None, the image is not in the node, the node's
\* has_bad_attachments is true and the warnings name the attachments.
C13_UnresolvedFlagged ==
  \A h \in Handlers :
    LET t == task[h]
    IN  (/\ WalkDone(t)
         /\ t.new_msg \in DOMAIN msg_nodes
         /\ TriggerNode(t).unresolved > 0)
          => /\ TriggerNode(t).images < max_images
             /\ TriggerNode(t).has_bad_attachments
             /\ <<"bad_attachments", 0>> \in t.user_warnings

\* C13, what the code does: has_bad_attachments says that the message has an
\* attachment that is not an image by its content type, whatever the
\* downloads returned, and the warning follows the flag.
C13_FlagByContentType ==
  \A h \in Handlers :
    LET t == task[h]
    IN  (WalkDone(t) /\ t.new_msg \in DOMAIN msg_nodes)
          => /\ TriggerNode(t).has_bad_attachments = (platform[t.new_msg].bad > 0)
             /\ TriggerNode(t).has_bad_attachments
                  => <<"bad_attachments", 0>> \in t.user_warnings

\* ------------------------------------------------------------- C14, C15
\* The handler has applied the permission checks to its message.
GateDecided(t) == t.config_data # <<>>

\* The author, one of the author's roles or one of the channel ids of the
\* message of handler t is on a block list of the configuration it read.
OnBlockList(p, t) ==
  LET c == t.config_data[1]
      m == t.gate[1]
  IN  \/ p[t.new_msg].author \in c.blocked_user_ids
      \/ m.role_ids \cap c.blocked_role_ids # {}
      \/ m.channel_ids \cap c.blocked_channel_ids # {}

\* The author of the message of handler t is an admin of the configuration it read.
ByAdmin(p, t) == p[t.new_msg].author \in t.config_data[1].admin_ids

\* Something answers message id: a message of the bot replies to it.
Answered(p, id) == \E r \in DOMAIN p : p[r].author = BotUser /\ p[r].ref = id

\* C14: a message from an admin user who is on no block list is accepted by
\* the permission gate, whatever the allow-lists contain, in guild channels
\* and in direct messages.
C14_AdminAccepted ==
  \A h \in Handlers :
    (GateDecided(task[h]) /\ ByAdmin(platform, task[h]) /\ ~OnBlockList(platform, task[h]))
      => task[h].pc # "denied"

\* What holds of C14: the admin's message is accepted in a direct message,
\* and in a guild channel when the channel allow-list is empty or names one
\* of the message's channel ids.
C14_AdminAcceptedWhereChannelAllowed ==
  \A h \in Handlers :
    LET t == task[h] IN
    (/\ GateDecided(t) /\ ByAdmin(platform, t) /\ ~OnBlockList(platform, t)
     /\ \/ platform[t.new_msg].dm
        \/ t.config_data[1].allowed_channel_ids = {}
        \/ t.gate[1].channel_ids \cap t.config_data[1].allowed_channel_ids # {})
      => t.pc # "denied"

\* C15: a message whose author, one of whose author's roles or one of whose
\* channel ids is on a block list is never answered, admin or not: the
\* handler stops at the gate, makes no call, caches nothing and no message
\* of the bot replies to it.
C15_BlockedNeverAnswered ==
  \A h \in Handlers :
    LET t == task[h] IN
    (GateDecided(t) /\ OnBlockList(platform, t))
      => /\ t.pc = "denied"
         /\ t.calls = <<>>
         /\ t.response_msgs = <<>>
         /\ t.new_msg \notin DOMAIN msg_nodes
         /\ ~Answered(platform, t.new_msg)

\* An admin's message, which the allow-lists would let pass, was stopped at
\* the gate by a block list.
C15_AdminBlocked ==
  \E h \in Handlers :
    LET t == task[h] IN
    /\ GateDecided(t) /\ OnBlockList(platform, t) /\ ByAdmin(platform, t)
    /\ t.pc = "denied"
    /\ t.config_data[1].allowed_user_ids = {} /\ t.config_data[1].allowed_channel_ids = {}
    /\ t.config_data[1].allow_dms

\* ------------------------------------------------------------------ C16
\* The messages of the bot among the platform's messages p, as shown.
ShownByBot(p) == [r \in {x \in DOMAIN p : p[x].author = BotUser} |-> p[r]]

\* C16: the steps of a handler that drops its message (its author is a bot,
\* it is a guild message without a mention, or the gate rejects it), from the
\* delivery to the return, send and edit nothing and leave the message-node
\* cache and the preference store as they were.
C16_DropIsSilent ==
  [][\A h \in Handlers :
       (task'[h] # task[h] /\ task'[h].pc \in {"ignored", "config", "denied"})
         => /\ msg_nodes' = msg_nodes
            /\ nodes' = nodes
            /\ server_data' = server_data
            /\ ShownByBot(platform') = ShownByBot(platform)
            /\ task'[h].calls = <<>>
            /\ task'[h].response_msgs = <<>>]_vars

\* A message was dropped by the gate: the cache and the store are empty as
\* at the start and the platform holds no message of the bot for it.
C16_Dropped ==
  \E h \in Handlers :
    /\ task[h].pc = "denied"
    /\ msg_nodes = <<>>
    /\ server_data = <<>>
    /\ ~Answered(platform, task[h].new_msg)

\* ------------------------------------------------------------------ C17
\* The parent the cache records for message id, NoMsg when id is not cached.
CachedParent(id) ==
  IF id \in DOMAIN msg_nodes THEN nodes[msg_nodes[id]].parent_msg ELSE NoMsg

\* C17: the turns submitted to the generation call are in chronological
\* order: they are the turns of the walk, each once, by ascending message id;
\* the trigger message's turn, when it has one, is the last; the turn of a
\* message's parent comes before the message's turn.
C17_Chronological ==
  \A h \in Handlers :
    LET s == task[h].submitted IN
    /\ Len(s) = Len(task[h].messages) \/ s = <<>>
    /\ \A i \in DOMAIN s : \E j \in DOMAIN task[h].messages : task[h].messages[j] = s[i]
    /\ \A i \in DOMAIN s, j \in DOMAIN s :
         /\ i < j => s[i].msg < s[j].msg
         /\ s[i].msg = task[h].new_msg => i = Len(s)
         /\ CachedParent(s[j].msg) = s[i].msg => i < j

\* A conversation of max_messages turns was submitted, the trigger's turn
\* last and its parent's turn just before it.
C17_Submitted ==
  \E h \in Handlers :
    LET s == task[h].submitted IN
    /\ Len(s) = max_messages
    /\ Len(s) > 1
    /\ s[Len(s)].msg = task[h].new_msg
    /\ CachedParent(task[h].new_msg) = s[Len(s) - 1].msg

\* ------------------------------------------------------------------ C18
\* A /model command that asks for a switch of the record of key (saved or
\* still saving) is among the first n commands.
SwitchAmong(n, key) ==
  \E j \in 1..n :
    /\ DataKey(interaction[j].dm, interaction[j].user) = key
    /\ interaction[j].said = <<>> \/ interaction[j].said[1] = "Model switched to"

\* The handler has loaded its preferences.
Loaded(t) == t.pc \notin {"idle", "ignored", "config", "denied", "load"}

\* C18: for a direct-message identity without a stored record, loading the
\* preferences returns the default model and the default system prompt and
\* creates the record; as long as no command has switched the model, the
\* record keeps them and a /model view replies with the default model.
C18_DefaultsLoadedAndShown ==
  /\ \A h \in Handlers :
       LET t == task[h]
           key == DataKey(TRUE, platform[t.new_msg].author)
       IN  (Loaded(t) /\ platform[t.new_msg].dm /\ ~SwitchAmong(Len(interaction), key))
             => /\ t.server_data.model = DefaultModel
                /\ t.server_data.system_prompt = DefaultPrompt
                /\ key \in DOMAIN server_data
                /\ server_data[key].model = DefaultModel
                /\ server_data[key].system_prompt = DefaultPrompt
  /\ \A i \in DOMAIN interaction :
       LET e == interaction[i]
           key == DataKey(TRUE, e.user)
       IN  (e.dm /\ ~SwitchAmong(i, key))
             => /\ key \in DOMAIN server_data
                /\ e.data.model = DefaultModel
                /\ e.data.system_prompt = DefaultPrompt
                /\ e.model = "None" => e.said = <<"Current model", DefaultModel>>

\* A direct message of a user without a record was handled, which created
\* the record, and a later /model view of that user in the direct-message
\* channel found the record and replied with the default model.
C18_ViewedAfterLoad ==
  \E h \in Handlers, i \in DOMAIN interaction :
    /\ Loaded(task[h])
    /\ platform[task[h].new_msg].dm
    /\ interaction[i].dm
    /\ interaction[i].user = platform[task[h].new_msg].author
    /\ interaction[i].model = "None"
    /\ ~interaction[i].fresh
    /\ \A j \in 1..i : ~interaction[j].fresh
    /\ interaction[i].said = <<"Current model", DefaultModel>>

\* ------------------------------------------------------------------ C19
\* The preceding message of msg was written by the author expected of a
\* continuation: the bot in a direct message, otherwise the author of msg.
ByExpectedAuthor(p, msg) ==
  /\ msg.prev \in DOMAIN p
  /\ p[msg.prev].author = (IF msg.dm THEN BotUser ELSE msg.author)

\* The parent by the precedence as C19 states it.
StatedParent(p, m) ==
  IF p[m].ref = NoMsg /\ ~p[m].mention /\ ByExpectedAuthor(p, p[m]) THEN p[m].prev
  ELSE IF p[m].thread # NoMsg /\ p[m].ref = NoMsg THEN p[m].thread
  ELSE IF p[m].ref # NoMsg THEN p[m].ref
  ELSE NoMsg

\* The same precedence where case (a) also requires that the preceding
\* message is an ordinary message or a reply.
OrdinaryParent(p, m) ==
  IF /\ p[m].ref = NoMsg /\ ~p[m].mention /\ ByExpectedAuthor(p, p[m])
     /\ p[p[m].prev].kind \in {"default", "reply"}
  THEN p[m].prev
  ELSE IF p[m].thread # NoMsg /\ p[m].ref = NoMsg THEN p[m].thread
  ELSE IF p[m].ref # NoMsg THEN p[m].ref
  ELSE NoMsg

\* The cached messages whose node a populate has completed.
Populated == {m \in DOMAIN msg_nodes : nodes[msg_nodes[m]].pops > 0 /\ nodes[msg_nodes[m]].resolved}

\* C19 as stated: populate gives a node the parent of the precedence (a)
\* preceding message, (b) thread starter, (c) reply target; a message with a
\* reply reference always gets its reply target.
C19_StatedPrecedence ==
  \A m \in Populated : nodes[msg_nodes[m]].parent_msg = StatedParent(platform, m)

\* C19: when the lookups of populate return, the node's parent is the one of
\* the precedence with case (a) limited to a preceding message of type
\* default or reply; when a lookup raises NotFound or HTTPException the node
\* has no parent and fetch_parent_failed is set.
C19_Precedence ==
  \A m \in Populated :
    LET n == nodes[msg_nodes[m]] IN
    /\ ~n.fetch_parent_failed => n.parent_msg = OrdinaryParent(platform, m)
    /\ n.fetch_parent_failed => n.parent_msg = NoMsg

\* A message of the thread without mention and reference got its preceding
\* message as parent, not the thread's starter, and a reply posted in the
\* thread got its reply target.
C19_PrevBeforeThread ==
  \E m \in Populated, r \in Populated :
    /\ platform[m].thread # NoMsg /\ platform[m].ref = NoMsg
    /\ nodes[msg_nodes[m]].parent_msg = platform[m].prev
    /\ platform[m].prev # platform[m].thread
    /\ platform[r].thread # NoMsg /\ platform[r].ref # NoMsg
    /\ nodes[msg_nodes[r]].parent_msg = platform[r].ref

\* ------------------------------------------------------------------ C20
\* The response content of a message shown as text: text without the
\* in-progress marker.
ContentOf(text) ==
  IF text # <<>> /\ Last(text) = StreamingIndicator
  THEN SubSeq(text, 1, Len(text) - 1)
  ELSE text

\* C20: no message is sent or edited with response content longer than the
\* single-message capacity: neither a content the rich stream loop has put
\* into a send call, nor the content of any message of the bot on the platform.
C20_WithinCapacity ==
  /\ \A h \in Handlers :
       ~use_plain =>
         \A i \in DOMAIN task[h].response_contents :
           TextLen(task[h].response_contents[i]) <= task[h].max_message_length
  /\ \A r \in DOMAIN platform :
       platform[r].author = BotUser
         => TextLen(ContentOf(platform[r].text)) <= MaxMessageLength(use_plain)

\* C21: the clean-up removes the entry of a key only while no other task
\* holds the lock of the node that the cache maps the key to: every entry a
\* step removes has a free lock when the step starts (the clean-up takes and
\* releases the lock within its step).
C21_RemovesUnlockedOnly ==
  [][\A k \in DOMAIN msg_nodes \ DOMAIN msg_nodes' : LockFree(nodes[msg_nodes[k]])]_vars

\* The walk of task t, among nodes objs, has built the turn of a node whose
\* parent lookup failed only as its last one: that node has no parent, the
\* walk ended there (curr_msg is None) and the warnings hold "Only using last
\* N message(s)".
StopsAtFailedParent(t, objs) ==
  \A i \in DOMAIN t.walked :
    objs[t.walked[i].node].fetch_parent_failed =>
      /\ i = Len(t.walked)
      /\ objs[t.walked[i].node].parent_msg = NoMsg
      /\ t.curr_msg = NoMsg
      /\ t.pc \notin {"acquire", "pop_images", "pop_parent"}
      /\ \E n \in 0..max_messages : <<"only_last", n>> \in t.user_warnings

\* C22: when the parent lookup of a node raises discord.NotFound or
\* discord.HTTPException (the one failing call of the step, which the handler
\* survives), the node gets fetch_parent_failed and no parent; and every
\* walk that builds the turn of such a node, the one that populated it or a
\* later one that finds it in the cache, stops at it with the warning
\* "Only using last N message(s)".
C22_FetchFailureEndsWalk ==
  [][\A h \in Handlers :
       /\ (/\ task[h].pc = "pop_parent"
           /\ task'[h] # task[h]
           /\ faults' = faults + 1
           /\ task'[h].pc # "crashed") =>
            /\ nodes'[task[h].curr_node].fetch_parent_failed
            /\ nodes'[task[h].curr_node].parent_msg = NoMsg
            /\ task'[h].walked = Append(task[h].walked, [msg |-> task[h].curr_msg,
                                                         node |-> task[h].curr_node])
       /\ StopsAtFailedParent(task'[h], nodes')]_vars

\* Two walks have stopped at the same node, whose parent lookup failed: the
\* walk that populated it and a later one that found it in the cache.
C22_StoppedTwice ==
  \E g \in Handlers, h \in Handlers :
    /\ g # h
    /\ task[g].walked # <<>>
    /\ task[h].walked # <<>>
    /\ Last(task[g].walked) = Last(task[h].walked)
    /\ nodes[Last(task[g].walked).node].fetch_parent_failed
    /\ \E n \in 1..max_messages : <<"only_last", n>> \in task[h].user_warnings
    /\ \E n \in 1..max_messages : <<"only_last", n>> \in task[g].user_warnings

\* ------------------------------------------------------------------ C23
\* The participants of a conversation that have a non-empty stored
\* description in record rec: of the users map of a guild record, of the
\* single user entry of a direct-message record.
Described(rec, dm, ids) ==
  IF dm
  THEN IF rec.user # <<>> /\ rec.user[1].description # 0 THEN ids ELSE {}
  ELSE {u \in ids : u \in DOMAIN rec.users /\ rec.users[u].description # 0}

\* C23: build_system_prompt returns a prompt for every input without raising,
\* and its known-users block lists exactly the participants that have a
\* non-empty stored description, in a guild and in a direct message alike.
C23_PromptBuilt ==
  \A h \in Handlers :
    LET t == task[h]
    IN  t.system_prompt # <<>> =>
          /\ t.system_prompt[1].raised = ""
          /\ t.system_prompt[1].known = Described(t.server_data, platform[t.new_msg].dm, t.user_ids)

\* ------------------------------------------------------------------ C24
\* Handler t has left the try block through its except clause: the
\* generation call or the stream raised, or a call of the final update failed.
EnteredExcept(t) ==
  \E i \in DOMAIN t.calls :
    ~t.calls[i].ok /\ t.calls[i].kind \in {"raise", "send_final", "edit_final"}

\* What the response messages of handler t show, in the order in which they
\* were sent.
ShownTexts(t) == [i \in DOMAIN t.response_msgs |-> platform[t.response_msgs[i]].text]

\* C24: when the stream has ended and the final update has completed without
\* entering the except clause, the texts of the handler's response messages,
\* joined in send order, are the received deltas in their order; the bot has
\* sent no other message; and every response node holds that same text.
C24_DeltasDelivered ==
  \A h \in Handlers :
    LET t == task[h]
    IN  (t.pc = "done" /\ ~EnteredExcept(t)) =>
          /\ Join(ShownTexts(t)) = t.stream
          /\ {t.response_msgs[i] : i \in DOMAIN t.response_msgs} =
               {m \in DOMAIN platform : platform[m].author = BotUser /\ m > t.new_msg}
          /\ \A i \in DOMAIN t.response_msgs :
               /\ t.response_msgs[i] \in DOMAIN msg_nodes
               /\ nodes[msg_nodes[t.response_msgs[i]]].text = <<t.stream>>

\* A stream of MaxDeltas deltas has ended and its text is shown split across
\* two messages, after a delta that was buffered without an edit.
C24_SplitDelivered ==
  \E h \in Handlers :
    LET t == task[h]
    IN  /\ t.pc = "done"
        /\ ~EnteredExcept(t)
        /\ Len(t.stream) = MaxDeltas
        /\ Len(t.response_msgs) = 2
        /\ \A i \in DOMAIN t.calls : t.calls[i].kind # "edit_update"
        /\ Join(ShownTexts(t)) = t.stream

\* ------------------------------------------------------------------ C25
\* Message m is a response message of handler g: one it has sent, registered
\* in response_msgs or not yet.
ResponseOf(g, m) ==
  \/ \E i \in DOMAIN task[g].response_msgs : task[g].response_msgs[i] = m
  \/ (task[g].sent = m /\ m # NoMsg)

\* Handler g has run "Store final response".
Stored(g) == task[g].pc \in {"done", "evict_wait"}

\* C25: a walk builds the turn of a response message of another handler only
\* after that handler has stored the response text, and from the node that
\* holds it: the text is the joined contents, the role is model and the parent
\* is the trigger message of the response.
C25_ResponseUsedWhenStored ==
  \A h \in Handlers, g \in Handlers :
    \A j \in DOMAIN task[h].walked :
      LET w == task[h].walked[j]
      IN  ResponseOf(g, w.msg) =>
            /\ Stored(g)
            /\ nodes[w.node].text = <<Join(task[g].response_contents)>>
            /\ nodes[w.node].role = "model"
            /\ nodes[w.node].parent_msg = task[g].new_msg

\* ------------------------------------------------------------------ C26
\* C26: every message that passed the gate eventually gets at least one
\* outgoing message from the bot.  What this requires of a handler that has
\* run to its end, which sends nothing afterwards: it has sent a message,
\* response content or the error text.
C26_EndedHandlerAnswered ==
  \A h \in Handlers :
    task[h].pc = "done" => task[h].response_msgs # <<>>

\* ------------------------------------------------------------------ C27
\* The author of the message handler h handles has an entry in record rec.
HasEntry(rec, h) ==
  LET msg == platform[task[h].new_msg]
  IN  IF msg.dm THEN rec.user # <<>> ELSE msg.author \in DOMAIN rec.users

\* C27: no update of a preference record is lost.  When get_or_create_user
\* of a handler has completed and the only command of the run, a /model
\* switch of the same record, has completed too, in whatever order and
\* however their loads and saves interleaved, the stored record holds the
\* author's entry and the model the command switched to.
C27_BothEffectsStored ==
  \A h \in Handlers :
    LET t == task[h]
        key == DataKey(platform[t.new_msg].dm, platform[t.new_msg].author)
    IN  (/\ t.pc \in {"generate", "crashed"}
         /\ Len(interaction) = 1
         /\ interaction[1].cmd = "model"
         /\ interaction[1].said = <<"Model switched to", interaction[1].model>>
         /\ DataKey(interaction[1].dm, interaction[1].user) = key)
        => /\ HasEntry(server_data[key], h)
           /\ server_data[key].model = interaction[1].model

\* ------------------------------------------------------------------ C28
\* The stored description of user u in record rec of a guild, or of the
\* owner of a direct-message record; 0 when there is none.
DescriptionOf(rec, key, u) ==
  IF key[1] = "dm"
  THEN IF key[2] = u /\ rec.user # <<>> THEN rec.user[1].description ELSE 0
  ELSE IF u \in DOMAIN rec.users THEN rec.users[u].description ELSE 0

\* C28: in every step, the model and the system prompt of a stored record
\* change only in a step of a slash command that an admin issued, and the
\* description of a user changes only in a step of a slash command that the
\* user or an admin issued.
C28_ChangesAuthorized ==
  [][\A key \in DOMAIN server_data \cap DOMAIN server_data' :
       LET old == server_data[key]
           new == server_data'[key]
           issuers == {interaction'[i].user : i \in
                         {j \in DOMAIN interaction' :
                            j \notin DOMAIN interaction \/ interaction[j] # interaction'[j]}}
       IN  /\ (old.model # new.model \/ old.system_prompt # new.system_prompt)
                => \E u \in issuers : u \in StartupAdmins
           /\ \A u \in CommandUsers :
                DescriptionOf(old, key, u) # DescriptionOf(new, key, u)
                  => \E v \in issuers : v = u \/ v \in StartupAdmins]_vars

====
